---- MODULE Spec2Model ----
(***************************************************************************)
(* A model of the ytpriv comment scraper: the MongoDB connection service   *)
(* (services/database.py), the dual-source fetch loop, the multi-query     *)
(* aggregation and the deduplication (services/comment_fetcher.py), the    *)
(* persistence of a search and its retrieval (routes/search_routes.py),    *)
(* startup (main.py, application.py), the cleanup and the listing of the   *)
(* stored searches (routes/database_routes.py), the query variations       *)
(* (services/ai_service.py), the helpers validate_query and                *)
(* sanitize_filename (utils), the relevance filter                         *)
(* (services/reddit_service.py), the legacy helper of app.py, the counts   *)
(* of the search routes, the subreddit fan-out                             *)
(* (services/reddit_service.py), retry_on_failure (utils/helpers.py),      *)
(* the collections written and the comment pages of a video                *)
(* (services/youtube_service.py).                                          *)
(*                                                                         *)
(* The specifications share the variables; each leaves the other parts     *)
(* at their initial value:                                                 *)
(*   SpecDbSeq  DatabaseService, calls made one after the other            *)
(*   SpecDb     DatabaseService, calls of request threads interleaved      *)
(*   SpecFetch  fetch_all_comments_parallel                                *)
(*   SpecAgg    fetch_multiple_queries_aggregated                          *)
(*   SpecUnique get_unique_comments_unified, one comment at a time         *)
(*   SpecSave   a search request from the end of its fetch to its response,*)
(*              and a later GET of the batch                               *)
(*   SpecBoot   python main.py, from the imports to app.run                *)
(*   SpecAdmin  POST /database/cleanup and list_search_results             *)
(*   SpecVary   generate_query_variations as called by POST /api/search    *)
(*   SpecQuery  validate_query                                             *)
(*   SpecName   sanitize_filename, applied once and again                  *)
(*   SpecRel    filter_comment_relevance with the terms of its caller      *)
(*   SpecLegacy get_mongo_client and connect() on the same outcomes        *)
(*   SpecFiles  the files of concurrent save_unified_data calls            *)
(*   SpecCounts the counts a search route stores and the counts it answers *)
(*   SpecForums search_subreddits and get_comments_parallel                *)
(*   SpecRetry  a function wrapped by retry_on_failure                     *)
(*   SpecCollections  the inserts and deletes of the database operations   *)
(*   SpecPages  get_comments, page by page; SpecPagesFair adds that the    *)
(*              loop takes the steps it can take                           *)
(***************************************************************************)
EXTENDS Integers, Sequences, FiniteSets, TLC

VARIABLES
    \* ---- DatabaseService (services/database.py) ----
    uriSet,     \* config.MONGODB_URI is configured
    client,     \* self.client: None, or the id of a MongoClient
    db,         \* self.db: None, or the id of the client it was taken from
    pc,         \* per request thread: the line of database.py it is about to run
    ret,        \* per request thread: what its last completed call returned
    nCreated,   \* MongoClient objects constructed so far
    last,       \* the call that completed last: <<thread, operation, result, line of the return>>
    connected,  \* a connect() returned True and no close_connection() began since
    closeCalled, \* some close_connection() call has begun
    \* ---- fetch_all_comments_parallel (services/comment_fetcher.py) ----
    fMin,           \* argument min_total_comments
    fMax,           \* argument max_retries
    fpc,            \* the line of comment_fetcher.py the orchestrator is about to run
    attempt,        \* local attempt
    total_comments, \* local total_comments
    total_replies,  \* local total_replies
    all_videos,     \* local all_videos
    sources_used,   \* local sources_used
    results,        \* local results (per source: present or not)
    errors,         \* local errors (per source: "none" or the message)
    attempt_videos, \* local attempt_videos
    task,           \* the two submitted tasks: how long each runs and what it returns
    now,            \* seconds since the tasks of this attempt were submitted
    collectedAt,    \* the value of now when the second result() call returned
    attemptsRun,    \* attempts started so far (pairs of tasks submitted)
    nPauses,        \* time.sleep(PAUSE_BETWEEN_ATTEMPTS) calls so far
    srcBefore,      \* len(sources_used) when the current attempt began
    fret,           \* the returned dict, or the exception that left the function
    \* ---- fetch_multiple_queries_aggregated (services/comment_fetcher.py) ----
    queries,                  \* argument queries
    target,                   \* argument target_total_comments
    apc,                      \* the line the aggregation is about to run
    qi,                       \* loop variable i (1-based)
    query_result,             \* what the fetch of the current query did
    all_unique_comments,      \* the global dict, as its values in insertion order
    all_videos_data,          \* local all_videos_data
    total_processed_comments, \* local total_processed_comments
    total_processed_replies,  \* local total_processed_replies
    successful_queries,       \* local successful_queries
    failed_queries,           \* local failed_queries
    query_results,            \* local query_results
    fetched,                  \* the calls of fetch_all_comments_parallel made so far
    aggPauses,                \* time.sleep(PAUSE_BETWEEN_QUERIES) calls so far
    aret,                     \* the returned dict
    \* ---- get_unique_comments_unified (services/comment_fetcher.py) ----
    videos_data,      \* argument videos_data
    upc,              \* the line the function is about to run
    vidx,             \* the position of the loop over videos_data (1-based)
    cidx,             \* the position of the loop over video['comments'] (1-based)
    unique_comments,  \* local unique_comments, as its values in insertion order
    unique_total,     \* local total_comments
    replies_total,    \* local total_replies
    uret,             \* the returned tuple
    \* ---- POST /api/search, /api/search/simple and the retrieval of a batch ----
    \* ---- (routes/search_routes.py, save_unified_data, save_search_result)  ----
    endpoint,          \* the search route handling the request: "search" or "simple"
    has_videos,        \* the fetch produced at least one content item
    spc,               \* the line the request is about to run
    combined_data,     \* save_unified_data: the SearchResult document built
    exc,               \* save_search_result: the exception the primary insert raised
    mongo_result,      \* save_unified_data: what save_search_result returned
    search_results,    \* the documents of the search_results collection
    videos_filename,   \* what the write of the videos file returned
    history_filename,  \* what the write of the history file returned
    calls,             \* calls made of save_search_result and of save_to_json_file
    save_result,       \* the first value save_unified_data returned
    response,          \* the response to the POST
    get_request,       \* the later GET: its route, batch id and whether the database answered
    get_response,      \* the response to the GET
    \* ---- startup: python main.py (main.py, application.py, the service modules) ----
    environ,           \* which environment variables are set (to a non-empty value)
    bpc,               \* the line startup is about to run
    singletons,        \* the module-level service instances constructed so far
    warnings,          \* the warnings of validate_required_env_vars
    process,           \* "starting", "serving", "exit 1" or "traceback"
    \* ---- the search_results collection: POST /database/cleanup and list_search_results ----
    records,           \* the documents of the collection, in insertion order
    before,            \* the documents when the current cleanup request began
    svc,               \* db_service: whether self.client and self.db are set
    adpc,              \* the line the cleanup request is about to run
    keep_latest,       \* the request's keep_latest
    all_records,       \* local all_records
    cleanup_response,  \* the response to the cleanup request
    listed,            \* what the list_search_results calls since the last write returned
    \* ---- POST /api/search: the query variations (routes/search_routes.py, services/ai_service.py) ----
    ai_available,      \* ai_service.is_available()
    num_body,          \* what the request body holds under 'num_variations'
    ai_response,       \* what model.generate_content does in this request
    vpc,               \* the line of search() about to run
    query_variations,  \* local query_variations
    vary_status,       \* the status of the response, 0 while there is none
    \* ---- validate_query (utils/helpers.py) ----
    vquery,            \* argument query, as its runs of equal characters
    validation,        \* the tuple validate_query returned
    \* ---- sanitize_filename (utils/file_utils.py) ----
    fname,             \* argument filename, as its runs of equal characters
    sanitized,         \* what sanitize_filename returned, for the name and then for its own output
    \* ---- the relevance filter (services/reddit_service.py) ----
    rquery,            \* argument query of get_comments_from_subreddit, as its words
    reddit_body,       \* comment.body
    rpc,               \* the line about to run
    query_terms,       \* local query_terms
    relevant,          \* what filter_comment_relevance returned
    \* ---- get_mongo_client (app.py) beside DatabaseService.connect ----
    uri_configured,    \* MONGODB_URI is set
    legacy,            \* app.py: whether the globals mongo_client and db are set
    modular,           \* db_service: whether self.client and self.db are set
    outcomes,          \* what the database did at each pair of calls so far
    compared,          \* what the last pair of calls reported and whether each made an attempt
    \* ---- the files of save_unified_data (services/comment_fetcher.py) ----
    savers,            \* per saving request: the line it is about to run and its locals
    clock,             \* the second of the latest call of save_unified_data
    files_written,     \* the files written so far, each with the request that wrote it
    \* ---- the counts of a search (routes/search_routes.py, services/comment_fetcher.py) ----
    cendpoint,         \* the route: "search" or "simple"
    fetched_lists,     \* the content items each fetched query accumulated
    cpc,               \* where the handler is: "fetched", "saved" or "responded"
    document_counts,   \* the counts of the document save_unified_data built
    response_counts,   \* the counts of the response
    response_status,   \* the status of the response, 0 while there is none
    \* ---- the forums of the discussion platform (services/reddit_service.py) ----
    accessible,        \* the forums whose probe does not raise
    search_raised,     \* an exception leaves the try block of search_subreddits
    subreddits,        \* local subreddits of get_comments_parallel
    gpc,               \* the line of get_comments_parallel about to run
    per_subreddit,     \* local comments_per_subreddit
    futures,           \* per submitted task: its state and, once finished, its outcome
    finished_first,    \* the futures as_completed found finished and has not yielded yet
    waiter,            \* the futures that finished since, in this order, not yielded yet
    yielded,           \* the tasks in the order as_completed yielded them
    completion,        \* the tasks in the order they finished
    all_comments,      \* local all_comments
    parallel_ret,      \* what get_comments_parallel returned
    \* ---- retry_on_failure (utils/helpers.py) ----
    max_retries,       \* argument max_retries
    delay,             \* argument delay, in seconds
    backoff,           \* argument backoff
    wpc,               \* the line of wrapper about to run
    wattempt,          \* loop variable attempt, -1 before the loop
    current_delay,     \* local current_delay
    trace,             \* the calls of func and the sleeps so far, in order
    wrapper_result,    \* how the wrapper ended and the call whose result or exception it passed on
    \* ---- the collections of the database (services/database.py, routes/database_routes.py) ----
    store,             \* per collection: the number of its documents, or Absent
    opc,               \* "idle", or the line of test_connection about to run
    ops,               \* the operations begun so far
    written_to,        \* the collections some operation inserted into or deleted from
    \* ---- the comment pages of one video (services/youtube_service.py) ----
    max_comments,      \* max_comments of get_comments
    ycomments,         \* comments of get_comments: per comment, the number of its replies
    next_page_token,   \* next_page_token of get_comments
    max_results,       \* maxResults of the page request under way
    ypc                \* "l81" (the loop test), "l91" (a page request under way) or "done"

dbVars == <<uriSet, client, db, pc, ret, nCreated, last, connected, closeCalled>>

fetchVars == <<fMin, fMax, fpc, attempt, total_comments, total_replies, all_videos,
               sources_used, results, errors, attempt_videos, task, now, collectedAt,
               attemptsRun, nPauses, srcBefore, fret>>

aggVars == <<queries, target, apc, qi, query_result, all_unique_comments, all_videos_data,
             total_processed_comments, total_processed_replies, successful_queries,
             failed_queries, query_results, fetched, aggPauses, aret>>

uniqueVars == <<videos_data, upc, vidx, cidx, unique_comments, unique_total,
                replies_total, uret>>

saveVars == <<endpoint, has_videos, spc, combined_data, exc, mongo_result, search_results,
              videos_filename, history_filename, calls, save_result, response,
              get_request, get_response>>

bootVars == <<environ, bpc, singletons, warnings, process>>

adminVars == <<records, before, svc, adpc, keep_latest, all_records, cleanup_response,
               listed>>

varyVars == <<ai_available, num_body, ai_response, vpc, query_variations, vary_status>>

queryVars == <<vquery, validation>>

nameVars == <<fname, sanitized>>

relVars == <<rquery, reddit_body, rpc, query_terms, relevant>>

legacyVars == <<uri_configured, legacy, modular, outcomes, compared>>

filesVars == <<savers, clock, files_written>>

countsVars == <<cendpoint, fetched_lists, cpc, document_counts, response_counts,
                response_status>>

forumsVars == <<accessible, search_raised, subreddits, gpc, per_subreddit, futures,
                finished_first, waiter, yielded, completion, all_comments,
                parallel_ret>>

retryVars == <<max_retries, delay, backoff, wpc, wattempt, current_delay, trace,
               wrapper_result>>

collectionsVars == <<store, opc, ops, written_to>>

pagesVars == <<max_comments, ycomments, next_page_token, max_results, ypc>>

vars == <<dbVars, fetchVars, aggVars, uniqueVars, saveVars, bootVars, adminVars,
          varyVars, queryVars, nameVars, relVars, legacyVars, filesVars, countsVars,
          forumsVars, retryVars, collectionsVars, pagesVars>>

\* What the actions of one part leave alone: the variables of the other parts.
notDb == <<fetchVars, aggVars, uniqueVars, saveVars, bootVars, adminVars, varyVars,
           queryVars, nameVars, relVars, legacyVars, filesVars, countsVars, forumsVars,
           retryVars, collectionsVars, pagesVars>>
notFetch == <<dbVars, aggVars, uniqueVars, saveVars, bootVars, adminVars, varyVars,
              queryVars, nameVars, relVars, legacyVars, filesVars, countsVars,
              forumsVars, retryVars, collectionsVars, pagesVars>>
notAgg == <<dbVars, fetchVars, uniqueVars, saveVars, bootVars, adminVars, varyVars,
            queryVars, nameVars, relVars, legacyVars, filesVars, countsVars,
            forumsVars, retryVars, collectionsVars, pagesVars>>
notUnique == <<dbVars, fetchVars, aggVars, saveVars, bootVars, adminVars, varyVars,
               queryVars, nameVars, relVars, legacyVars, filesVars, countsVars,
               forumsVars, retryVars, collectionsVars, pagesVars>>
notSave == <<dbVars, fetchVars, aggVars, uniqueVars, bootVars, adminVars, varyVars,
             queryVars, nameVars, relVars, legacyVars, filesVars, countsVars,
             forumsVars, retryVars, collectionsVars, pagesVars>>
notBoot == <<dbVars, fetchVars, aggVars, uniqueVars, saveVars, adminVars, varyVars,
             queryVars, nameVars, relVars, legacyVars, filesVars, countsVars,
             forumsVars, retryVars, collectionsVars, pagesVars>>

notAdmin == <<dbVars, fetchVars, aggVars, uniqueVars, saveVars, bootVars, varyVars,
              queryVars, nameVars, relVars, legacyVars, filesVars, countsVars,
              forumsVars, retryVars, collectionsVars, pagesVars>>

notVary == <<dbVars, fetchVars, aggVars, uniqueVars, saveVars, bootVars, adminVars,
             queryVars, nameVars, relVars, legacyVars, filesVars, countsVars,
             forumsVars, retryVars, collectionsVars, pagesVars>>

notQuery == <<dbVars, fetchVars, aggVars, uniqueVars, saveVars, bootVars, adminVars,
              varyVars, nameVars, relVars, legacyVars, filesVars, countsVars,
              forumsVars, retryVars, collectionsVars, pagesVars>>

notName == <<dbVars, fetchVars, aggVars, uniqueVars, saveVars, bootVars, adminVars,
             varyVars, queryVars, relVars, legacyVars, filesVars, countsVars,
             forumsVars, retryVars, collectionsVars, pagesVars>>

notRel == <<dbVars, fetchVars, aggVars, uniqueVars, saveVars, bootVars, adminVars,
            varyVars, queryVars, nameVars, legacyVars, filesVars, countsVars,
            forumsVars, retryVars, collectionsVars, pagesVars>>

notLegacy == <<dbVars, fetchVars, aggVars, uniqueVars, saveVars, bootVars, adminVars,
               varyVars, queryVars, nameVars, relVars, filesVars, countsVars,
               forumsVars, retryVars, collectionsVars, pagesVars>>

notFiles == <<dbVars, fetchVars, aggVars, uniqueVars, saveVars, bootVars, adminVars,
              varyVars, queryVars, nameVars, relVars, legacyVars, countsVars,
              forumsVars, retryVars, collectionsVars, pagesVars>>

notCounts == <<dbVars, fetchVars, aggVars, uniqueVars, saveVars, bootVars, adminVars,
               varyVars, queryVars, nameVars, relVars, legacyVars, filesVars,
               forumsVars, retryVars, collectionsVars, pagesVars>>

notForums == <<dbVars, fetchVars, aggVars, uniqueVars, saveVars, bootVars, adminVars,
               varyVars, queryVars, nameVars, relVars, legacyVars, filesVars,
               countsVars, retryVars, collectionsVars, pagesVars>>

notRetry == <<dbVars, fetchVars, aggVars, uniqueVars, saveVars, bootVars, adminVars,
              varyVars, queryVars, nameVars, relVars, legacyVars, filesVars,
              countsVars, forumsVars, collectionsVars, pagesVars>>

notCollections == <<dbVars, fetchVars, aggVars, uniqueVars, saveVars, bootVars,
                    adminVars, varyVars, queryVars, nameVars, relVars, legacyVars,
                    filesVars, countsVars, forumsVars, retryVars, pagesVars>>

notPages == <<dbVars, fetchVars, aggVars, uniqueVars, saveVars, bootVars, adminVars,
              varyVars, queryVars, nameVars, relVars, legacyVars, filesVars,
              countsVars, forumsVars, retryVars, collectionsVars>>

None == 0

\* ------------------------------------------------------------------ bounds
NThreads == 2
MaxClients == 3
MaxTarget == 4      \* min_total_comments ranges over 0..MaxTarget
MaxRetries == 3     \* max_retries ranges over 0..MaxRetries
MaxDur == 4         \* a source task runs 0..MaxDur seconds
MaxQueries == 3     \* queries holds 0..MaxQueries queries
MaxAggTarget == 3   \* target_total_comments ranges over 0..MaxAggTarget
MaxVideos == 2      \* videos_data holds 0..MaxVideos content items
MaxRecords == 3     \* search_results holds 0..MaxRecords documents
MaxLists == 2       \* list_search_results calls between two writes
MaxLines == 2       \* the AI response holds 0..MaxLines lines
MaxRuns == 3        \* a query holds 0..MaxRuns runs of equal characters
MaxWords == 4       \* a query holds 0..MaxWords words
MaxCalls == 4       \* pairs of calls of get_mongo_client and connect
NSaves == 2         \* requests that call save_unified_data
MaxSecond == 2      \* the seconds the clock runs through
MaxVariations == 2  \* query variations whose fetches a search aggregates
MaxForums == 3      \* forums the platform answers for, and so tasks of the fan-out
MaxWrapperRetries == 2  \* max_retries of a retry_on_failure wrapper
MaxOps == 5         \* database operations in a row
MaxComments == 3    \* largest max_comments of get_comments

Threads == 1..NThreads

\* =====================================================================
\* DatabaseService
\* =====================================================================

\* The outcomes of MongoClient(uri, ...): an object, or an exception (a malformed URI).
CtorOutcomes == {"ok", "raise"}

\* The outcomes of client.admin.command('ping'): success, ConnectionFailure,
\* ServerSelectionTimeoutError, or another exception (authentication failed).
PingOutcomes == {"ok", "ConnectionFailure", "ServerSelectionTimeoutError", "auth"}

\* lines 14-17, and whether the URI is configured.
InitDb ==
    /\ uriSet \in BOOLEAN
    /\ client = None
    /\ db = None
    /\ pc = [t \in Threads |-> "idle"]
    /\ ret = [t \in Threads |-> "none"]
    /\ nCreated = 0
    /\ last = <<0, "none", "none", 0>>
    /\ connected = FALSE
    /\ closeCalled = FALSE

\* A thread returns from connect() at line ln with result r ("True" or "False").
ConnectReturn(t, r, ln) ==
    /\ pc' = [pc EXCEPT ![t] = "idle"]
    /\ ret' = [ret EXCEPT ![t] = r]
    /\ last' = <<t, "connect", r, ln>>
    /\ connected' = IF r = "True" THEN TRUE ELSE connected

\* A request thread calls connect() (directly or through an operation).
CallConnect(t) ==
    /\ pc[t] = "idle"
    /\ pc' = [pc EXCEPT ![t] = "l21"]
    /\ UNCHANGED <<uriSet, client, db, ret, nCreated, last, connected, closeCalled>>
    /\ UNCHANGED notDb

\* A connect() that attempts a connection whatever self.client holds.
NeedsAttemptAlways(c) == TRUE

\* The test of line 21: self.client is None.
NeedsAttempt(c) == c = None

\* line 21: if self.client is None: ... (else line 65: return True)
ConnectCheck(t) ==
    /\ pc[t] = "l21"
    /\ IF NeedsAttempt(client)
       THEN /\ pc' = [pc EXCEPT ![t] = "l27"]
            /\ UNCHANGED <<ret, last, connected>>
       ELSE ConnectReturn(t, "True", 65)
    /\ UNCHANGED <<uriSet, client, db, nCreated, closeCalled>>
    /\ UNCHANGED notDb

\* line 27: if not self.config.MONGODB_URI: return False
ConnectUri(t) ==
    /\ pc[t] = "l27"
    /\ IF uriSet
       THEN /\ pc' = [pc EXCEPT ![t] = "l31"]
            /\ UNCHANGED <<ret, last, connected>>
       ELSE ConnectReturn(t, "False", 29)
    /\ UNCHANGED <<uriSet, client, db, nCreated, closeCalled>>
    /\ UNCHANGED notDb

\* The assignment of line 31, self.client = MongoClient(...), with the new object.
AssignClient(h) == h

\* line 31: self.client = MongoClient(...); an exception is caught at line 52.
ConnectCreate(t) ==
    /\ pc[t] = "l31"
    /\ \E o \in CtorOutcomes :
         IF o = "ok"
         THEN /\ nCreated < MaxClients
              /\ nCreated' = nCreated + 1
              /\ client' = AssignClient(nCreated + 1)
              /\ pc' = [pc EXCEPT ![t] = "l37"]
              /\ UNCHANGED <<ret, last, connected>>
         ELSE /\ ConnectReturn(t, "False", 63)
              /\ UNCHANGED <<client, nCreated>>
    /\ UNCHANGED <<uriSet, db, closeCalled>>
    /\ UNCHANGED notDb

\* What the except clauses of lines 42-63 leave in self.client: they only print
\* and return False.
ClientAfterFailure(c) == c

\* line 37: self.client.admin.command('ping'). self.client is read again here: it
\* is None if another thread's close_connection() ran in between (AttributeError,
\* caught at line 52).
ConnectPing(t) ==
    /\ pc[t] = "l37"
    /\ \E o \in PingOutcomes :
         IF client # None /\ o = "ok"
         THEN /\ pc' = [pc EXCEPT ![t] = "l38"]
              /\ UNCHANGED <<client, ret, last, connected>>
         ELSE /\ client' = ClientAfterFailure(client)
              /\ ConnectReturn(t, "False", IF o = "ConnectionFailure" THEN 45
                                            ELSE IF o = "ServerSelectionTimeoutError" THEN 50
                                            ELSE 63)
    /\ UNCHANGED <<uriSet, db, nCreated, closeCalled>>
    /\ UNCHANGED notDb

\* line 38: self.db = self.client[...] ; line 40: return True. With self.client
\* None by now the subscript raises TypeError (caught at line 52).
ConnectSetDb(t) ==
    /\ pc[t] = "l38"
    /\ IF client # None
       THEN /\ db' = client
            /\ ConnectReturn(t, "True", 40)
       ELSE /\ ConnectReturn(t, "False", 63)
            /\ UNCHANGED db
    /\ UNCHANGED <<uriSet, client, nCreated, closeCalled>>
    /\ UNCHANGED notDb

\* A thread calls close_connection().
CallClose(t) ==
    /\ pc[t] = "idle"
    /\ pc' = [pc EXCEPT ![t] = "l233"]
    /\ closeCalled' = TRUE
    /\ connected' = FALSE
    /\ UNCHANGED <<uriSet, client, db, ret, nCreated, last>>
    /\ UNCHANGED notDb

\* line 233: if self.client: ; line 234: self.client.close()
CloseCheck(t) ==
    /\ pc[t] = "l233"
    /\ IF client # None
       THEN /\ pc' = [pc EXCEPT ![t] = "l235"]
            /\ UNCHANGED <<ret, last>>
       ELSE /\ pc' = [pc EXCEPT ![t] = "idle"]
            /\ ret' = [ret EXCEPT ![t] = "none"]
            /\ last' = <<t, "close", "none", 233>>
    /\ UNCHANGED <<uriSet, client, db, nCreated, connected, closeCalled>>
    /\ UNCHANGED notDb

\* line 235: self.client = None
CloseClient(t) ==
    /\ pc[t] = "l235"
    /\ client' = None
    /\ pc' = [pc EXCEPT ![t] = "l236"]
    /\ UNCHANGED <<uriSet, db, ret, nCreated, last, connected, closeCalled>>
    /\ UNCHANGED notDb

\* line 236: self.db = None, and the call returns.
CloseDb(t) ==
    /\ pc[t] = "l236"
    /\ db' = None
    /\ pc' = [pc EXCEPT ![t] = "idle"]
    /\ ret' = [ret EXCEPT ![t] = "none"]
    /\ last' = <<t, "close", "none", 237>>
    /\ UNCHANGED <<uriSet, client, nCreated, connected, closeCalled>>
    /\ UNCHANGED notDb

AllIdle == \A t \in Threads : pc[t] = "idle"

\* One step of a call in progress.
DbStep(t) ==
    \/ ConnectCheck(t)
    \/ ConnectUri(t)
    \/ ConnectCreate(t)
    \/ ConnectPing(t)
    \/ ConnectSetDb(t)
    \/ CloseCheck(t)
    \/ CloseClient(t)
    \/ CloseDb(t)

\* Request threads run concurrently (main.py: app.run(threaded=True)) on the one
\* module-level db_service, which has no lock.
NextDb ==
    \E t \in Threads :
        \/ CallConnect(t)
        \/ CallClose(t)
        \/ DbStep(t)

\* The same calls made one after the other: a call begins when no call is running.
NextDbSeq ==
    \E t \in Threads :
        \/ AllIdle /\ CallConnect(t)
        \/ AllIdle /\ CallClose(t)
        \/ DbStep(t)


\* The service when no specification exercises it.
DbIdle == InitDb /\ uriSet = TRUE

\* =====================================================================
\* Comments, replies and content items (the dicts the services build)
\* =====================================================================

\* Comment and reply texts, as sequences of characters: "abab", "abab ", "baba",
\* "aba", "ab", "Abab", "abba", " abba", "ab " and " ".
tGood == <<"a", "b", "a", "b">>
tGoodSp == <<"a", "b", "a", "b", " ">>
tOther == <<"b", "a", "b", "a">>
tWow == <<"a", "b", "a">>
tNo == <<"a", "b">>
tUpper == <<"A", "b", "a", "b">>
tLong == <<"a", "b", "b", "a">>
tLongSp == <<" ", "a", "b", "b", "a">>
tNoSp == <<"a", "b", " ">>
tBlank == <<" ">>

\* A reply dict (youtube_service.get_comments, reddit_service): author, text,
\* likes and published_at (author_profile is carried along like author).
Rp(author, text, likes, published_at) ==
    [author |-> author, text |-> text, likes |-> likes, published_at |-> published_at]

\* A comment dict; post_title and subreddit are set by reddit_service only.
Cm(author, text, likes, published_at, replies, post_title, subreddit) ==
    [author |-> author, text |-> text, likes |-> likes, published_at |-> published_at,
     replies |-> replies, post_title |-> post_title, subreddit |-> subreddit]

\* A content item of search_and_get_comments: one video with its comments.
YtVideo(title, comments) ==
    [source |-> "youtube",
     video_info |-> [present |-> TRUE, title |-> title],
     post_info |-> [present |-> FALSE, title |-> "", subreddit |-> ""],
     comments |-> comments,
     comment_count |-> Len(comments)]

\* The content item fetch_reddit builds for one comment (lines 89-98).
RedditPost(comment) ==
    [source |-> "reddit",
     video_info |-> [present |-> FALSE, title |-> ""],
     post_info |-> [present |-> TRUE, title |-> comment.post_title,
                    subreddit |-> comment.subreddit],
     comments |-> <<comment>>,
     comment_count |-> 1]

\* for comment in reddit_comments: reddit_posts.append({...})
RedditPosts(comments) == [i \in 1..Len(comments) |-> RedditPost(comments[i])]

\* sum(len(v['comments']) for v in videos)
RECURSIVE CountComments(_)
CountComments(videos) ==
    IF videos = <<>> THEN 0
    ELSE Len(Head(videos).comments) + CountComments(Tail(videos))

\* sum of len(comment.get('replies', [])) over a list of comments
RECURSIVE CountRepliesOf(_)
CountRepliesOf(comments) ==
    IF comments = <<>> THEN 0
    ELSE Len(Head(comments).replies) + CountRepliesOf(Tail(comments))

\* lines 152-154: the replies of every comment of every item
RECURSIVE CountReplies(_)
CountReplies(videos) ==
    IF videos = <<>> THEN 0
    ELSE CountRepliesOf(Head(videos).comments) + CountReplies(Tail(videos))

\* =====================================================================
\* fetch_all_comments_parallel
\* =====================================================================

Sources == {"youtube", "reddit"}

\* config.FETCH_TIMEOUT in seconds: int(os.getenv('FETCH_TIMEOUT', '180')), here
\* with the environment variable set to 2.
FETCH_TIMEOUT == 2

\* What search_and_get_comments may hand to fetch_youtube.
YtLists ==
    { <<>>,
      << YtVideo("v1", <<Cm("u1", tGood, 5, "d1", <<Rp("u2", tOther, 1, "d2")>>, "", "")>>) >>,
      << YtVideo("v2", <<Cm("u1", tWow, 0, "d1", <<>>, "", ""),
                         Cm("u2", tGoodSp, 2, "d3", <<>>, "", "")>>),
         YtVideo("v3", <<>>) >> }

\* What get_comments_parallel may hand to fetch_reddit.
RedditLists ==
    { <<>>,
      << Cm("u2", tGood, 3, "d2", <<>>, "p1", "all") >>,
      << Cm("u1", tOther, 1, "d1", <<Rp("u2", tGood, 0, "d2")>>, "p2", "AskReddit"),
         Cm("u2", tNo, 7, "d3", <<>>, "p2", "AskReddit") >> }

\* fetch_youtube (lines 49-76): the dict it returns, given what the service did.
FetchYoutube(raised, videos) ==
    IF raised THEN [error |-> "exception", source |-> "", videos |-> <<>>, total_comments |-> 0]
    ELSE IF videos = <<>>
    THEN [error |-> "No YouTube videos found", source |-> "", videos |-> <<>>, total_comments |-> 0]
    ELSE [error |-> "none", source |-> "youtube", videos |-> videos,
          total_comments |-> CountComments(videos)]

\* fetch_reddit (lines 78-110).
FetchReddit(raised, comments) ==
    IF raised THEN [error |-> "exception", source |-> "", videos |-> <<>>, total_comments |-> 0]
    ELSE [error |-> "none", source |-> "reddit", videos |-> RedditPosts(comments),
          total_comments |-> Len(comments)]

YtReturns == {FetchYoutube(TRUE, <<>>)} \cup {FetchYoutube(FALSE, v) : v \in YtLists}
RedditReturns == {FetchReddit(TRUE, <<>>)} \cup {FetchReddit(FALSE, c) : c \in RedditLists}

NoResult == [error |-> "absent", source |-> "", videos |-> <<>>, total_comments |-> 0]
NoTask == [dur |-> 0, out |-> NoResult, asked |-> [nothing |-> 0]]
NoReturn == [returned |-> FALSE]

\* Local errors is assigned at line 47 only, inside the loop body: until then
\* the name is unbound and reading it raises UnboundLocalError.
Unbound == [s \in Sources |-> "unbound"]

Max(a, b) == IF a >= b THEN a ELSE b

\* The state of a call that has not begun, but for its arguments.
FetchStart ==
    /\ fpc = "l43"
    /\ attempt = 1
    /\ total_comments = 0
    /\ total_replies = 0
    /\ all_videos = <<>>
    /\ sources_used = <<>>
    /\ results = [s \in Sources |-> NoResult]
    /\ errors = Unbound
    /\ attempt_videos = <<>>
    /\ task = [s \in Sources |-> NoTask]
    /\ now = 0
    /\ collectedAt = 0
    /\ attemptsRun = 0
    /\ nPauses = 0
    /\ srcBefore = 0
    /\ fret = NoReturn

\* lines 27-41
InitFetch ==
    /\ fMin \in 0..MaxTarget
    /\ fMax \in 0..MaxRetries
    /\ FetchStart

FetchIdle ==
    /\ fMin = 0
    /\ fMax = 0
    /\ FetchStart

\* line 43: while total_comments + total_replies < min_total_comments and attempt <= max_retries
LoopCondition == total_comments + total_replies < fMin /\ attempt <= fMax

\* line 43, and lines 46-47 when the body is entered.
LoopTest ==
    /\ fpc = "l43"
    /\ IF LoopCondition
       THEN /\ fpc' = "l113"
            /\ results' = [s \in Sources |-> NoResult]
            /\ errors' = [s \in Sources |-> "none"]
            /\ srcBefore' = Len(sources_used)
       ELSE /\ fpc' = "l187"
            /\ UNCHANGED <<results, errors, srcBefore>>
    /\ UNCHANGED <<fMin, fMax, attempt, total_comments, total_replies, all_videos,
                   sources_used, attempt_videos, task, now, collectedAt, attemptsRun,
                   nPauses, fret>>
    /\ UNCHANGED notFetch

\* line 53: video_count = max_videos + (attempt - 1) * 10, max_videos = 20
VideoCount(k) == 20 + (k - 1) * 10

\* line 54: comments_per_video = comments_per_video + (attempt - 1) * 30, from 150
CommentsPerVideo(k) == 150 + (k - 1) * 30

\* A discussion-platform budget that does not grow with the attempt.
RedditLimitFlat(k) == 3000

\* line 82: reddit_limit = comments_limit + (attempt - 1) * 1000, comments_limit = 3000
RedditLimit(k) == 3000 + (k - 1) * 1000

\* What the two closures ask of the services (lines 56-60 and 84). Each reads the
\* enclosing function's attempt when it runs: it starts when it is submitted
\* (two workers, two tasks) and the loop reaches attempt += 1 (line 178) only
\* after the with block has waited for both tasks.
Asked(s, k) ==
    IF s = "youtube"
    THEN [max_videos |-> VideoCount(k), max_comments_per_video |-> CommentsPerVideo(k)]
    ELSE [limit |-> RedditLimit(k)]

\* lines 113-115: both tasks are submitted to a pool of two workers and start at
\* once; the platforms decide how long each runs and what it returns.
Submit ==
    /\ fpc = "l113"
    /\ \E dy \in 0..MaxDur, dr \in 0..MaxDur, oy \in YtReturns, or \in RedditReturns :
         task' = [s \in Sources |->
                     IF s = "youtube"
                     THEN [dur |-> dy, out |-> oy, asked |-> Asked(s, attempt)]
                     ELSE [dur |-> dr, out |-> or, asked |-> Asked(s, attempt)]]
    /\ now' = 0
    /\ collectedAt' = 0
    /\ attemptsRun' = attemptsRun + 1
    /\ fpc' = "l119"
    /\ UNCHANGED <<fMin, fMax, attempt, total_comments, total_replies, all_videos,
                   sources_used, results, errors, attempt_videos, nPauses, srcBefore, fret>>
    /\ UNCHANGED notFetch

\* future.result(timeout=FETCH_TIMEOUT) called at time `at` on the task of source s:
\* it returns when the task is done, or raises TimeoutError FETCH_TIMEOUT seconds
\* after the call.
ResultDeadline(at) == at + FETCH_TIMEOUT
ResultInTime(s, at) == task[s].dur <= ResultDeadline(at)
ResultReturnsAt(s, at) ==
    IF ResultInTime(s, at) THEN Max(at, task[s].dur) ELSE ResultDeadline(at)

\* lines 118-126 and 128-136: one source's result is collected.
Collect(s) ==
    IF ResultInTime(s, now)
    THEN IF task[s].out.error = "none"
         THEN /\ results' = [results EXCEPT ![s] = task[s].out]
              /\ sources_used' = Append(sources_used, s)
              /\ UNCHANGED errors
         ELSE /\ errors' = [errors EXCEPT ![s] = task[s].out.error]
              /\ UNCHANGED <<results, sources_used>>
    ELSE /\ errors' = [errors EXCEPT ![s] = "timeout"]
         /\ UNCHANGED <<results, sources_used>>

\* lines 118-126: yt_result = future_yt.result(timeout=...)
CollectYoutube ==
    /\ fpc = "l119"
    /\ Collect("youtube")
    /\ now' = ResultReturnsAt("youtube", now)
    /\ fpc' = "l129"
    /\ UNCHANGED <<fMin, fMax, attempt, total_comments, total_replies, all_videos,
                   attempt_videos, task, collectedAt, attemptsRun, nPauses, srcBefore, fret>>
    /\ UNCHANGED notFetch

\* lines 128-136: reddit_result = future_reddit.result(timeout=...)
CollectReddit ==
    /\ fpc = "l129"
    /\ Collect("reddit")
    /\ now' = ResultReturnsAt("reddit", now)
    /\ collectedAt' = now'
    /\ fpc' = "l137"
    /\ UNCHANGED <<fMin, fMax, attempt, total_comments, total_replies, all_videos,
                   attempt_videos, task, attemptsRun, nPauses, srcBefore, fret>>
    /\ UNCHANGED notFetch

\* When the with block of line 113 is left: ThreadPoolExecutor.__exit__ calls
\* shutdown(wait=True), which returns when both tasks have finished.
ExecutorExitAt(t) == Max(t, Max(task["youtube"].dur, task["reddit"].dur))

\* The end of the with block (line 137).
ExecutorExit ==
    /\ fpc = "l137"
    /\ now' = ExecutorExitAt(now)
    /\ fpc' = "l139"
    /\ UNCHANGED <<fMin, fMax, attempt, total_comments, total_replies, all_videos,
                   sources_used, results, errors, attempt_videos, task, collectedAt,
                   attemptsRun, nPauses, srcBefore, fret>>
    /\ UNCHANGED notFetch

Present(s) == results[s].error = "none"

\* A merge that leaves out the discussion platform's items.
AttemptVideosYoutubeOnly ==
    IF Present("youtube") THEN results["youtube"].videos ELSE <<>>

\* lines 139-149: the items of the sources in results, youtube first.
AttemptVideos ==
    (IF Present("youtube") THEN results["youtube"].videos ELSE <<>>)
    \o (IF Present("reddit") THEN results["reddit"].videos ELSE <<>>)

\* A count that leaves out the discussion platform's comments.
AttemptCommentsNoReddit ==
    IF Present("youtube") THEN results["youtube"].total_comments ELSE 0

\* lines 143-149: attempt_comments
AttemptComments ==
    (IF Present("youtube") THEN results["youtube"].total_comments ELSE 0)
    + (IF Present("reddit") THEN results["reddit"].total_comments ELSE 0)

\* lines 138-159
Merge ==
    /\ fpc = "l139"
    /\ attempt_videos' = AttemptVideos
    /\ all_videos' = all_videos \o AttemptVideos
    /\ total_comments' = total_comments + AttemptComments
    /\ total_replies' = total_replies + CountReplies(AttemptVideos)
    /\ fpc' = "l169"
    /\ UNCHANGED <<fMin, fMax, attempt, sources_used, results, errors, task, now,
                   collectedAt, attemptsRun, nPauses, srcBefore, fret>>
    /\ UNCHANGED notFetch

\* A pause after every attempt that missed the target, the last included.
ShouldPauseAfterLast(a, m) == a <= m

\* line 172: elif attempt < max_retries
ShouldPause(a, m) == a < m

\* lines 169-178: break, or sleep, or neither; then attempt += 1
CheckTarget ==
    /\ fpc = "l169"
    /\ IF total_comments + total_replies >= fMin
       THEN /\ fpc' = "l187"
            /\ UNCHANGED <<attempt, nPauses>>
       ELSE /\ nPauses' = IF ShouldPause(attempt, fMax) THEN nPauses + 1 ELSE nPauses
            /\ attempt' = attempt + 1
            /\ fpc' = "l43"
    /\ task' = [s \in Sources |-> NoTask]
    /\ now' = 0
    /\ collectedAt' = 0
    /\ UNCHANGED <<fMin, fMax, total_comments, total_replies, all_videos, sources_used,
                   results, errors, attempt_videos, attemptsRun, srcBefore, fret>>
    /\ UNCHANGED notFetch

\* line 195: 'attempts_made': attempt - 1
AttemptsMade(a) == a - 1

\* lines 187-196: the dict returned, or the exception of reading errors at
\* line 193 while it is unbound.
FetchReturn ==
    IF errors = Unbound
    THEN [returned |-> FALSE, raised |-> "UnboundLocalError"]
    ELSE [returned |-> TRUE,
          videos |-> all_videos,
          total_comments |-> total_comments,
          total_replies |-> total_replies,
          grand_total |-> total_comments + total_replies,
          sources |-> sources_used,
          errors |-> errors,
          target_achieved |-> (total_comments + total_replies >= fMin),
          attempts_made |-> AttemptsMade(attempt)]

\* lines 187-196
Return ==
    /\ fpc = "l187"
    /\ fret' = FetchReturn
    /\ fpc' = "done"
    /\ UNCHANGED <<fMin, fMax, attempt, total_comments, total_replies, all_videos,
                   sources_used, results, errors, attempt_videos, task, now, collectedAt,
                   attemptsRun, nPauses, srcBefore>>
    /\ UNCHANGED notFetch

\* simple_search (routes/search_routes.py lines 149-198): the status it answers
\* with after the call of lines 149-153: 500 from the except clause of line 196,
\* 404 for no content (lines 158-159), else 200.
SimpleSearchStatus(r) ==
    IF ~r.returned THEN 500
    ELSE IF r.videos = <<>> THEN 404
    ELSE 200

NextFetch ==
    \/ LoopTest
    \/ Submit
    \/ CollectYoutube
    \/ CollectReddit
    \/ ExecutorExit
    \/ Merge
    \/ CheckTarget
    \/ Return


\* =====================================================================
\* get_unique_comments_unified
\* =====================================================================

\* The characters str.strip() removes.
IsSpace(c) == c = " "

RECURSIVE LStrip(_)
LStrip(t) == IF t = <<>> THEN <<>>
             ELSE IF IsSpace(Head(t)) THEN LStrip(Tail(t)) ELSE t

RECURSIVE RStrip(_)
RStrip(t) == IF t = <<>> THEN <<>>
             ELSE IF IsSpace(t[Len(t)]) THEN RStrip(SubSeq(t, 1, Len(t) - 1)) ELSE t

\* text.lstrip(): trailing whitespace is kept.
StripLeft(t) == LStrip(t)

\* text.strip()
Strip(t) == RStrip(LStrip(t))

\* comment_text in unique_comments
HasText(unique, text) == \E k \in 1..Len(unique) : unique[k].text = text

\* The position of unique_comments[comment_text] among the dict's values.
IndexOfText(unique, text) == CHOOSE k \in 1..Len(unique) : unique[k].text = text

\* line 350: video.get('video_info', {}).get('title', video.get('post_info', {}).get('title', 'Unknown'))
TitleOf(video) ==
    IF video.video_info.present THEN video.video_info.title
    ELSE IF video.post_info.present THEN video.post_info.title
    ELSE "Unknown"

\* line 351: video.get('post_info', {}).get('subreddit', '')
SubredditOf(video) ==
    IF video.post_info.present THEN video.post_info.subreddit ELSE ""

\* lines 343-353: the entry stored for a comment text seen for the first time.
NewUnique(video, comment, text) ==
    [author |-> comment.author,
     text |-> text,
     likes |-> comment.likes,
     published_at |-> comment.published_at,
     source |-> video.source,
     video_title |-> TitleOf(video),
     subreddit |-> SubredditOf(video),
     replies |-> <<>>]

\* line 360: if reply_text and reply_text not in existing_replies and len(reply_text) > 3
KeepReply(reply_text, existing) ==
    reply_text # <<>> /\ reply_text \notin existing /\ Len(reply_text) > 3

\* lines 358-369: the entries appended for the replies of one comment;
\* existing_replies is computed once, before the loop (line 357).
RECURSIVE NewReplies(_, _, _)
NewReplies(existing, replies, source) ==
    IF replies = <<>> THEN <<>>
    ELSE LET reply_text == Strip(Head(replies).text)
             rest == NewReplies(existing, Tail(replies), source)
         IN  IF KeepReply(reply_text, existing)
             THEN <<[author |-> Head(replies).author, text |-> reply_text,
                     likes |-> Head(replies).likes,
                     published_at |-> Head(replies).published_at,
                     source |-> source]>> \o rest
             ELSE rest

\* A test that also skips a text of exactly 3 characters (the reply filter's bound).
SkipCommentUpTo3(text) == text = <<>> \/ Len(text) <= 3

\* line 339: if not comment_text or len(comment_text) < 3: continue
SkipComment(text) == text = <<>> \/ Len(text) < 3

\* lines 336-369: one comment. st holds unique_comments (its values in
\* insertion order), total_comments and total_replies.
ProcessComment(st, video, comment) ==
    LET text == Strip(comment.text) IN
    IF SkipComment(text) THEN st
    ELSE LET isNew == ~HasText(st.unique, text)
             u1 == IF isNew THEN Append(st.unique, NewUnique(video, comment, text))
                   ELSE st.unique
             k == IndexOfText(u1, text)
             existing == {u1[k].replies[j].text : j \in 1..Len(u1[k].replies)}
             added == NewReplies(existing, comment.replies, video.source)
         IN  [unique |-> [u1 EXCEPT ![k].replies = @ \o added],
              total_comments |-> st.total_comments + (IF isNew THEN 1 ELSE 0),
              total_replies |-> st.total_replies + Len(added)]

\* line 335: for comment in video['comments']
RECURSIVE ProcessComments(_, _, _)
ProcessComments(st, video, comments) ==
    IF comments = <<>> THEN st
    ELSE ProcessComments(ProcessComment(st, video, Head(comments)), video, Tail(comments))

\* line 332: for video in videos_data
RECURSIVE ProcessVideos(_, _)
ProcessVideos(st, videos) ==
    IF videos = <<>> THEN st
    ELSE ProcessVideos(ProcessComments(st, Head(videos), Head(videos).comments),
                       Tail(videos))

\* get_unique_comments_unified(videos_data): (list of entries, count, replies)
GetUniqueCommentsUnified(videos) ==
    ProcessVideos([unique |-> <<>>, total_comments |-> 0, total_replies |-> 0],
                  videos)

\* The content items a caller may pass: trailing and leading whitespace, a
\* difference of case, texts of two and three characters, a blank text, replies
\* of three characters, a comment whose replies repeat a text.
UniqueVideos ==
    { YtVideo("v1", <<Cm("u1", tGood, 5, "d1", <<Rp("u2", tOther, 1, "d2")>>, "", "")>>),
      YtVideo("v2", <<Cm("u1", tUpper, 0, "d1", <<Rp("u3", tWow, 0, "d2")>>, "", ""),
                      Cm("u2", tGoodSp, 2, "d3",
                         <<Rp("u3", tOther, 4, "d4"), Rp("u1", tLong, 0, "d5")>>, "", "")>>),
      RedditPost(Cm("u3", tWow, 1, "d2", <<>>, "p1", "all")),
      RedditPost(Cm("u2", tNo, 7, "d3", <<Rp("u1", tGood, 2, "d4")>>, "p2", "AskReddit")),
      YtVideo("v5", <<Cm("u3", tNoSp, 1, "d1", <<Rp("u1", tOther, 0, "d2")>>, "", ""),
                      Cm("u4", tGood, 9, "d6",
                         <<Rp("u1", tLong, 0, "d7"), Rp("u2", tLongSp, 3, "d8")>>, "", "")>>),
      YtVideo("v6", <<Cm("u1", tBlank, 0, "d1", <<>>, "", "")>>),
      YtVideo("v7", <<>>) }

NoUniqueReturn ==
    [returned |-> FALSE, unique_comments |-> <<>>, total_comments |-> 0, total_replies |-> 0]

\* lines 328-330
UniqueStart ==
    /\ upc = "l332"
    /\ vidx = 0
    /\ cidx = 0
    /\ unique_comments = <<>>
    /\ unique_total = 0
    /\ replies_total = 0
    /\ uret = NoUniqueReturn

\* lines 326-330
InitUnique ==
    /\ \E n \in 0..MaxVideos : videos_data \in [1..n -> UniqueVideos]
    /\ UniqueStart

UniqueIdle ==
    /\ videos_data = <<>>
    /\ UniqueStart

\* line 332: for video in videos_data
UniqueLoop ==
    /\ upc = "l332"
    /\ IF vidx < Len(videos_data)
       THEN /\ vidx' = vidx + 1
            /\ cidx' = 0
            /\ upc' = "l335"
       ELSE /\ upc' = "l371"
            /\ UNCHANGED <<vidx, cidx>>
    /\ UNCHANGED <<videos_data, unique_comments, unique_total, replies_total, uret>>
    /\ UNCHANGED notUnique

\* lines 335-369: for comment in video['comments'], one iteration (or the end
\* of the loop).
UniqueComment ==
    /\ upc = "l335"
    /\ IF cidx < Len(videos_data[vidx].comments)
       THEN LET st == ProcessComment([unique |-> unique_comments,
                                      total_comments |-> unique_total,
                                      total_replies |-> replies_total],
                                     videos_data[vidx],
                                     videos_data[vidx].comments[cidx + 1])
            IN  /\ cidx' = cidx + 1
                /\ unique_comments' = st.unique
                /\ unique_total' = st.total_comments
                /\ replies_total' = st.total_replies
                /\ UNCHANGED upc
       ELSE /\ upc' = "l332"
            /\ UNCHANGED <<cidx, unique_comments, unique_total, replies_total>>
    /\ UNCHANGED <<videos_data, vidx, uret>>
    /\ UNCHANGED notUnique

\* line 371: return list(unique_comments.values()), total_comments, total_replies
UniqueReturn ==
    /\ upc = "l371"
    /\ uret' = [returned |-> TRUE,
                unique_comments |-> unique_comments,
                total_comments |-> unique_total,
                total_replies |-> replies_total]
    /\ upc' = "done"
    /\ UNCHANGED <<videos_data, vidx, cidx, unique_comments, unique_total, replies_total>>
    /\ UNCHANGED notUnique

NextUnique ==
    \/ UniqueLoop
    \/ UniqueComment
    \/ UniqueReturn

\* =====================================================================
\* fetch_multiple_queries_aggregated
\* =====================================================================

QueryNames == <<"q1", "q2", "q3", "q4", "q5">>

\* line 225: max(5000, target_total_comments // len(queries))
PerQueryFloor(tgt, n) == Max(5000, tgt \div n)

\* The content items one query's fetch may have accumulated.
QueryVideoLists ==
    { <<>>,
      << YtVideo("v1", <<Cm("u1", tGood, 5, "d1", <<Rp("u2", tOther, 1, "d2")>>, "", "")>>) >>,
      << YtVideo("v2", <<Cm("u1", tWow, 0, "d1", <<>>, "", ""),
                         Cm("u2", tGoodSp, 2, "d3", <<Rp("u3", tLong, 4, "d4")>>, "", "")>>),
         RedditPost(Cm("u2", tNo, 7, "d3", <<>>, "p2", "AskReddit")) >>,
      << RedditPost(Cm("u1", tOther, 1, "d1", <<Rp("u2", tGood, 0, "d2")>>, "p2", "AskReddit")) >>,
      << RedditPost(Cm("u2", tNo, 7, "d3", <<>>, "p1", "all")) >> }

\* The dict fetch_all_comments_parallel returns (lines 187-196) for accumulated
\* items v, after both attempts of max_retries=2 missed the per-query floor.
FetchReturned(v) ==
    [raised |-> FALSE,
     videos |-> v,
     total_comments |-> CountComments(v),
     total_replies |-> CountReplies(v),
     sources |-> IF v = <<>> THEN <<>> ELSE <<Head(v).source>>,
     attempts_made |-> 2]

\* The call of line 223 raised.
FetchRaised ==
    [raised |-> TRUE, videos |-> <<>>, total_comments |-> 0, total_replies |-> 0,
     sources |-> <<>>, attempts_made |-> 0]

QueryOutcomes == {FetchRaised} \cup {FetchReturned(v) : v \in QueryVideoLists}

NoQueryResult ==
    [raised |-> FALSE, videos |-> <<>>, total_comments |-> 0, total_replies |-> 0,
     sources |-> <<>>, attempts_made |-> 0]

\* lines 207-213
AggStart ==
    /\ apc = "l215"
    /\ qi = 0
    /\ query_result = NoQueryResult
    /\ all_unique_comments = <<>>
    /\ all_videos_data = <<>>
    /\ total_processed_comments = 0
    /\ total_processed_replies = 0
    /\ successful_queries = 0
    /\ failed_queries = 0
    /\ query_results = <<>>
    /\ fetched = <<>>
    /\ aggPauses = 0
    /\ aret = NoReturn

\* lines 198-213
InitAgg ==
    /\ \E n \in 0..MaxQueries : queries = SubSeq(QueryNames, 1, n)
    /\ target \in 0..MaxAggTarget
    /\ AggStart

AggIdle ==
    /\ queries = <<>>
    /\ target = 0
    /\ AggStart

\* line 215: for i, query in enumerate(queries, 1)
AggLoop ==
    /\ apc = "l215"
    /\ IF qi < Len(queries)
       THEN /\ qi' = qi + 1
            /\ apc' = "l223"
       ELSE /\ apc' = "l297"
            /\ UNCHANGED qi
    /\ UNCHANGED <<queries, target, query_result, all_unique_comments, all_videos_data,
                   total_processed_comments, total_processed_replies, successful_queries,
                   failed_queries, query_results, fetched, aggPauses, aret>>
    /\ UNCHANGED notAgg

\* lines 223-227: query_result = self.fetch_all_comments_parallel(query=query,
\* min_total_comments=max(5000, target // len(queries)), max_retries=2)
AggFetch ==
    /\ apc = "l223"
    /\ \E o \in QueryOutcomes : query_result' = o
    /\ fetched' = Append(fetched, [query |-> queries[qi],
                                   min_total_comments |-> PerQueryFloor(target, Len(queries)),
                                   max_retries |-> 2])
    /\ apc' = "l229"
    /\ UNCHANGED <<queries, target, qi, all_unique_comments, all_videos_data,
                   total_processed_comments, total_processed_replies, successful_queries,
                   failed_queries, query_results, aggPauses, aret>>
    /\ UNCHANGED notAgg

\* A merge in which a later entry replaces the stored entry of the same text.
RECURSIVE MergeUniqueLastWins(_, _)
MergeUniqueLastWins(global, query_unique) ==
    IF query_unique = <<>> THEN global
    ELSE LET comment == Head(query_unique)
             comment_text == Strip(comment.text)
         IN  MergeUniqueLastWins(
                 IF HasText(global, comment_text)
                 THEN [global EXCEPT ![IndexOfText(global, comment_text)] = comment]
                 ELSE Append(global, comment),
                 Tail(query_unique))

\* lines 234-239: the entries of query_unique whose text is not yet a key.
RECURSIVE MergeUnique(_, _)
MergeUnique(global, query_unique) ==
    IF query_unique = <<>> THEN global
    ELSE LET comment == Head(query_unique)
             comment_text == Strip(comment.text)
         IN  MergeUnique(IF HasText(global, comment_text) THEN global
                         ELSE Append(global, comment),
                         Tail(query_unique))

\* A test that lets a run go on when the count equals the target.
TargetExceeded(count, tgt) == count > tgt

\* line 269: if current_unique_total >= target_total_comments
TargetReached(count, tgt) == count >= tgt

\* lines 229-271: the query produced content items.
AggSuccess ==
    /\ apc = "l229"
    /\ ~query_result.raised
    /\ query_result.videos # <<>>
    /\ LET qu == GetUniqueCommentsUnified(query_result.videos)
           merged == MergeUnique(all_unique_comments, qu.unique)
       IN  /\ all_unique_comments' = merged
           /\ all_videos_data' = all_videos_data \o query_result.videos
           /\ total_processed_comments' = total_processed_comments + query_result.total_comments
           /\ total_processed_replies' = total_processed_replies + query_result.total_replies
           /\ query_results' = Append(query_results,
                  [query |-> queries[qi],
                   status |-> "success",
                   total_comments |-> query_result.total_comments,
                   total_replies |-> query_result.total_replies,
                   unique_comments |-> qu.total_comments,
                   new_unique_comments |-> Len(merged) - Len(all_unique_comments),
                   sources |-> query_result.sources,
                   attempts |-> query_result.attempts_made])
           /\ successful_queries' = successful_queries + 1
           /\ apc' = IF TargetReached(Len(merged), target) THEN "l297" ELSE "l292"
    /\ UNCHANGED <<queries, target, qi, query_result, failed_queries, fetched, aggPauses,
                   aret>>
    /\ UNCHANGED notAgg

\* lines 273-280: the query produced no content items.
AggFailed ==
    /\ apc = "l229"
    /\ ~query_result.raised
    /\ query_result.videos = <<>>
    /\ failed_queries' = failed_queries + 1
    /\ query_results' = Append(query_results,
           [query |-> queries[qi], status |-> "failed", error |-> "No data collected"])
    /\ apc' = "l292"
    /\ UNCHANGED <<queries, target, qi, query_result, all_unique_comments, all_videos_data,
                   total_processed_comments, total_processed_replies, successful_queries,
                   fetched, aggPauses, aret>>
    /\ UNCHANGED notAgg

\* An except clause that gives the run up.
AfterCrashAbort == "l297"

\* Where the except clause of lines 282-289 leaves the loop body: at line 292.
AfterCrash == "l292"

\* lines 282-289: the fetch raised.
AggError ==
    /\ apc = "l229"
    /\ query_result.raised
    /\ failed_queries' = failed_queries + 1
    /\ query_results' = Append(query_results,
           [query |-> queries[qi], status |-> "error", error |-> "exception"])
    /\ apc' = AfterCrash
    /\ UNCHANGED <<queries, target, qi, query_result, all_unique_comments, all_videos_data,
                   total_processed_comments, total_processed_replies, successful_queries,
                   fetched, aggPauses, aret>>
    /\ UNCHANGED notAgg

\* lines 292-294: if i < len(queries): time.sleep(PAUSE_BETWEEN_QUERIES)
AggPause ==
    /\ apc = "l292"
    /\ aggPauses' = IF qi < Len(queries) THEN aggPauses + 1 ELSE aggPauses
    /\ apc' = "l215"
    /\ UNCHANGED <<queries, target, qi, query_result, all_unique_comments, all_videos_data,
                   total_processed_comments, total_processed_replies, successful_queries,
                   failed_queries, query_results, fetched, aret>>
    /\ UNCHANGED notAgg

\* lines 297-324
AggReturn ==
    /\ apc = "l297"
    /\ aret' = [returned |-> TRUE,
                videos |-> all_videos_data,
                unique_comments |-> all_unique_comments,
                unique_count |-> Len(all_unique_comments),
                total_processed_comments |-> total_processed_comments,
                total_processed_replies |-> total_processed_replies,
                grand_total |-> total_processed_comments + total_processed_replies,
                successful_queries |-> successful_queries,
                failed_queries |-> failed_queries,
                query_results |-> query_results,
                target_achieved |-> (Len(all_unique_comments) >= target),
                original_queries |-> queries]
    /\ apc' = "done"
    /\ UNCHANGED <<queries, target, qi, query_result, all_unique_comments, all_videos_data,
                   total_processed_comments, total_processed_replies, successful_queries,
                   failed_queries, query_results, fetched, aggPauses>>
    /\ UNCHANGED notAgg

NextAgg ==
    \/ AggLoop
    \/ AggFetch
    \/ AggSuccess
    \/ AggFailed
    \/ AggError
    \/ AggPause
    \/ AggReturn

\* =====================================================================
\* A search request from the end of its fetch: save_unified_data,
\* save_search_result, the response, and the later retrieval of the batch
\* =====================================================================

\* What connect() gives its caller (database.py lines 19-65): True with a
\* database handle, False, or True from line 65 with self.db still None (the
\* state a failed probe leaves, see C1).
ConnectOutcomes == {"connected", "False", "no_db"}

\* The exceptions insert_one may raise, by what the handler of line 118 goes by:
\* whether the document was over the size limit, and whether str(e) contains
\* "DocumentTooLarge" (the message is the driver's).
InsertErrors == [oversize : BOOLEAN, names_class : BOOLEAN]

NoError == [raised |-> FALSE, oversize |-> FALSE, names_class |-> FALSE]

RaisedError(e) == [raised |-> TRUE, oversize |-> e.oversize, names_class |-> e.names_class]

\* The query of the request and the batch identifiers: of an earlier search, and
\* str(uuid.uuid4())[:8] of this one.
OriginalQuery == "q0"
EarlierBatch == "b0"
FreshBatch == "b1"

\* JSON null.
Null == "null"

\* lines 389-413: the SearchResult document (its identification).
CombinedData(batch, query) == [present |-> TRUE, batch_id |-> batch, query |-> query]

NoData == [present |-> FALSE, batch_id |-> Null, query |-> ""]

\* A document of the collection: the full data (line 114) or the minimal
\* metadata of lines 122-133, with the _id the insert gave it.
Document(data, minimal, id) ==
    [batch_id |-> data.batch_id, query |-> data.query, minimal |-> minimal, id |-> id]

\* result.inserted_id of an insert into the collection.
InsertedId(collection) == Len(collection) + 1

\* line 448: f"mongodb:{mongo_result}" if mongo_result else "files_only"
SaveResult(result) ==
    IF result # None THEN [kind |-> "mongodb", id |-> result]
    ELSE [kind |-> "files_only", id |-> None]

NoSave == [kind |-> "none", id |-> None]

NoResponse == [status |-> 0, batch_id |-> Null, saved_to |-> NoSave, error |-> ""]

NoGet == [route |-> "none", batch_id |-> Null, connect |-> "none"]

NoGetResponse == [status |-> 0, found |-> FALSE, batch_id |-> Null, query |-> ""]

SaveStart ==
    /\ spc = "l59"
    /\ combined_data = NoData
    /\ exc = NoError
    /\ mongo_result = None
    /\ videos_filename = "unset"
    /\ history_filename = "unset"
    /\ calls = [save_search_result |-> 0, insert_one |-> 0, videos |-> 0, history |-> 0]
    /\ save_result = NoSave
    /\ response = NoResponse
    /\ get_request = NoGet
    /\ get_response = NoGetResponse

\* A request whose query was valid and whose fetch has returned; the
\* collection is empty or holds the document of an earlier search.
InitSave ==
    /\ endpoint \in {"search", "simple"}
    /\ has_videos \in BOOLEAN
    /\ search_results \in {<<>>, <<Document(CombinedData(EarlierBatch, OriginalQuery), FALSE, 1)>>}
    /\ SaveStart

SaveIdle ==
    /\ endpoint = "search"
    /\ has_videos = FALSE
    /\ search_results = <<>>
    /\ SaveStart

\* search_routes.py lines 59-60 (search) and 158-159 (simple_search):
\* if not ...['videos']: return jsonify({'error': ...}), 404
HandlerCheckVideos ==
    /\ spc = "l59"
    /\ IF has_videos
       THEN /\ spc' = "l376"
            /\ UNCHANGED response
       ELSE /\ spc' = "responded"
            /\ response' = [status |-> 404, batch_id |-> Null, saved_to |-> NoSave,
                            error |-> "No content found"]
    /\ UNCHANGED <<endpoint, has_videos, combined_data, exc, mongo_result, search_results,
                   videos_filename, history_filename, calls, save_result, get_request,
                   get_response>>
    /\ UNCHANGED notSave

\* comment_fetcher.py lines 375-413: the batch id and the document.
SaveBegin ==
    /\ spc = "l376"
    /\ combined_data' = CombinedData(FreshBatch, OriginalQuery)
    /\ spc' = "l110"
    /\ UNCHANGED <<endpoint, has_videos, exc, mongo_result, search_results, videos_filename,
                   history_filename, calls, save_result, response, get_request,
                   get_response>>
    /\ UNCHANGED notSave

\* Where save_unified_data goes on when save_search_result gave nothing: to the
\* return, leaving the files unwritten.
AfterDatabaseSkipFiles(result) == IF result = None THEN "l448" ELSE "l419"

\* Where save_unified_data goes on after line 416, whatever save_search_result
\* returned: to the write of the videos file (line 419).
AfterDatabase(result) == "l419"

\* comment_fetcher.py line 416 and database.py lines 110-113: the call, and
\* if not self.connect(): return None; collection = self.db['search_results']
\* (with self.db None that raises a TypeError, whose message does not hold
\* "DocumentTooLarge": line 143 returns None).
SaveConnect ==
    /\ spc = "l110"
    /\ calls' = [calls EXCEPT !.save_search_result = @ + 1]
    /\ \E c \in ConnectOutcomes :
          IF c = "connected"
          THEN /\ spc' = "l114"
               /\ UNCHANGED mongo_result
          ELSE /\ mongo_result' = None
               /\ spc' = AfterDatabase(None)
    /\ UNCHANGED <<endpoint, has_videos, combined_data, exc, search_results, videos_filename,
                   history_filename, save_result, response, get_request, get_response>>
    /\ UNCHANGED notSave

\* database.py lines 114-116: result = collection.insert_one(data)
SaveInsert ==
    /\ spc = "l114"
    /\ calls' = [calls EXCEPT !.insert_one = @ + 1]
    /\ \/ /\ search_results' = Append(search_results,
                                      Document(combined_data, FALSE, InsertedId(search_results)))
          /\ mongo_result' = InsertedId(search_results)
          /\ spc' = AfterDatabase(InsertedId(search_results))
          /\ UNCHANGED exc
       \/ /\ \E e \in InsertErrors : exc' = RaisedError(e)
          /\ spc' = "l118"
          /\ UNCHANGED <<search_results, mongo_result>>
    /\ UNCHANGED <<endpoint, has_videos, combined_data, videos_filename, history_filename,
                   save_result, response, get_request, get_response>>
    /\ UNCHANGED notSave

\* line 119: if "DocumentTooLarge" in str(e)
IsDocumentTooLarge(e) == e.names_class

\* database.py lines 118-143: the except clause of the primary insert.
SaveExcept ==
    /\ spc = "l118"
    /\ IF IsDocumentTooLarge(exc)
       THEN /\ spc' = "l135"
            /\ UNCHANGED mongo_result
       ELSE /\ mongo_result' = None
            /\ spc' = AfterDatabase(None)
    /\ UNCHANGED <<endpoint, has_videos, combined_data, exc, search_results, videos_filename,
                   history_filename, calls, save_result, response, get_request,
                   get_response>>
    /\ UNCHANGED notSave

\* line 137: return result.inserted_id
FallbackResult(id) == id

\* database.py lines 134-140: result = collection.insert_one(minimal_data)
SaveFallbackInsert ==
    /\ spc = "l135"
    /\ calls' = [calls EXCEPT !.insert_one = @ + 1]
    /\ \/ /\ search_results' = Append(search_results,
                                      Document(combined_data, TRUE, InsertedId(search_results)))
          /\ mongo_result' = FallbackResult(InsertedId(search_results))
          /\ spc' = AfterDatabase(FallbackResult(InsertedId(search_results)))
       \/ /\ mongo_result' = None
          /\ spc' = AfterDatabase(None)
          /\ UNCHANGED search_results
    /\ UNCHANGED <<endpoint, has_videos, combined_data, exc, videos_filename, history_filename,
                   save_result, response, get_request, get_response>>
    /\ UNCHANGED notSave

\* file_utils.py lines 51-71: the path written, or None when the directory
\* could not be made or the write raised.
SaveToJsonFile(written) == IF written THEN "path" ELSE "None"

\* comment_fetcher.py lines 419-429: videos_filename = save_to_json_file(...)
SaveVideosFile ==
    /\ spc = "l419"
    /\ calls' = [calls EXCEPT !.videos = @ + 1]
    /\ \E written \in BOOLEAN : videos_filename' = SaveToJsonFile(written)
    /\ spc' = "l431"
    /\ UNCHANGED <<endpoint, has_videos, combined_data, exc, mongo_result, search_results,
                   history_filename, save_result, response, get_request, get_response>>
    /\ UNCHANGED notSave

\* comment_fetcher.py lines 431-441: history_filename = save_to_json_file(...)
SaveHistoryFile ==
    /\ spc = "l431"
    /\ calls' = [calls EXCEPT !.history = @ + 1]
    /\ \E written \in BOOLEAN : history_filename' = SaveToJsonFile(written)
    /\ spc' = "l448"
    /\ UNCHANGED <<endpoint, has_videos, combined_data, exc, mongo_result, search_results,
                   videos_filename, save_result, response, get_request, get_response>>
    /\ UNCHANGED notSave

\* comment_fetcher.py line 448: return ..., combined_data
SaveReturn ==
    /\ spc = "l448"
    /\ save_result' = SaveResult(mongo_result)
    /\ spc' = "l97"
    /\ UNCHANGED <<endpoint, has_videos, combined_data, exc, mongo_result, search_results,
                   videos_filename, history_filename, calls, response, get_request,
                   get_response>>
    /\ UNCHANGED notSave

\* A handler that answers 500 when the database write failed.
ResponseStatusStrict(saved) == IF saved.kind = "mongodb" THEN 200 ELSE 500

\* search_routes.py lines 122 and 194: return jsonify(...), with the default status.
ResponseStatus(saved) == 200

\* search_routes.py lines 97-122 (search) and 175-194 (simple_search)
HandlerRespond ==
    /\ spc = "l97"
    /\ response' = [status |-> ResponseStatus(save_result),
                    batch_id |-> IF combined_data.present THEN combined_data.batch_id ELSE Null,
                    saved_to |-> save_result,
                    error |-> ""]
    /\ spc' = "responded"
    /\ UNCHANGED <<endpoint, has_videos, combined_data, exc, mongo_result, search_results,
                   videos_filename, history_filename, calls, save_result, get_request,
                   get_response>>
    /\ UNCHANGED notSave

\* database.py lines 145-162, get_search_result: the document found, if any.
Matching(collection, batch) == {k \in 1..Len(collection) : collection[k].batch_id = batch}

\* collection.find_one({'batch_id': batch_id}): the first match in insertion order.
FindOne(collection, batch) ==
    LET m == Matching(collection, batch)
    IN  collection[CHOOSE k \in m : \A j \in m : k <= j]

\* search_routes.py lines 201-220 (GET /api/search/status/<batch_id>) and
\* database_routes.py lines 56-69 (GET /api/database/batch/<batch_id>), with
\* database.py lines 145-162: without a connection, and when nothing matches,
\* get_search_result returns None and the route answers 404.
GetBatch ==
    /\ spc = "responded"
    /\ \E route \in {"status", "batch"}, batch \in {response.batch_id, EarlierBatch},
          c \in ConnectOutcomes :
          /\ get_request' = [route |-> route, batch_id |-> batch, connect |-> c]
          /\ get_response' =
                IF c = "connected" /\ Matching(search_results, batch) # {}
                THEN [status |-> 200, found |-> TRUE,
                      batch_id |-> FindOne(search_results, batch).batch_id,
                      query |-> FindOne(search_results, batch).query]
                ELSE [status |-> 404, found |-> FALSE, batch_id |-> Null, query |-> ""]
    /\ spc' = "done"
    /\ UNCHANGED <<endpoint, has_videos, combined_data, exc, mongo_result, search_results,
                   videos_filename, history_filename, calls, save_result, response>>
    /\ UNCHANGED notSave

NextSave ==
    \/ HandlerCheckVideos
    \/ SaveBegin
    \/ SaveConnect
    \/ SaveInsert
    \/ SaveExcept
    \/ SaveFallbackInsert
    \/ SaveVideosFile
    \/ SaveHistoryFile
    \/ SaveReturn
    \/ HandlerRespond
    \/ GetBatch

\* =====================================================================
\* Startup: python main.py
\* =====================================================================

\* The environment variables startup reads (config.py lines 19-30); GEMINI_API_KEY
\* has a default and is always set.
EnvNames == {"YOUTUBE_API_KEY", "REDDIT_CLIENT_ID", "REDDIT_CLIENT_SECRET",
             "REDDIT_USER_AGENT", "MONGODB_URI"}

\* all([REDDIT_CLIENT_ID, REDDIT_CLIENT_SECRET, REDDIT_USER_AGENT])
RedditConfigured(env) ==
    env["REDDIT_CLIENT_ID"] /\ env["REDDIT_CLIENT_SECRET"] /\ env["REDDIT_USER_AGENT"]

BootStart ==
    /\ bpc = "application.20"
    /\ singletons = {}
    /\ warnings = {}
    /\ process = "starting"

\* main.py line 23, from application import create_app, is about to run the
\* imports of application.py.
InitBoot ==
    /\ environ \in [EnvNames -> BOOLEAN]
    /\ BootStart

BootIdle ==
    /\ environ = [n \in EnvNames |-> TRUE]
    /\ BootStart

\* An exception raised while a module is imported leaves main.py at its line 23,
\* outside the try of main(): the interpreter prints the traceback and ends.
ImportRaises ==
    /\ process' = "traceback"
    /\ bpc' = "end"
    /\ UNCHANGED singletons

\* The module's instance is constructed and the import goes on at line next.
ImportDone(instance, next) ==
    /\ singletons' = singletons \cup {instance}
    /\ bpc' = next
    /\ UNCHANGED process

\* application.py line 20 and database.py lines 14-17, 241: db_service =
\* DatabaseService() sets the handles to None and connects to nothing.
ImportDatabaseService ==
    /\ bpc = "application.20"
    /\ ImportDone("db_service", "application.21")
    /\ UNCHANGED <<environ, warnings>>
    /\ UNCHANGED notBoot

\* application.py line 21 and ai_service.py lines 12-19, 191
ImportAiService ==
    /\ bpc = "application.21"
    /\ ImportDone("ai_service", "application.22")
    /\ UNCHANGED <<environ, warnings>>
    /\ UNCHANGED notBoot

\* application.py line 22 and youtube_service.py lines 13-20, 240:
\* if not self.api_key: raise ValueError(...)
ImportYoutubeService ==
    /\ bpc = "application.22"
    /\ IF environ["YOUTUBE_API_KEY"]
       THEN ImportDone("youtube_service", "application.23")
       ELSE ImportRaises
    /\ UNCHANGED <<environ, warnings>>
    /\ UNCHANGED notBoot

\* application.py line 23 and reddit_service.py lines 14-27, 310:
\* if not all([self.client_id, self.client_secret, self.user_agent]): raise ValueError(...)
ImportRedditService ==
    /\ bpc = "application.23"
    /\ IF RedditConfigured(environ)
       THEN ImportDone("reddit_service", "application.24")
       ELSE ImportRaises
    /\ UNCHANGED <<environ, warnings>>
    /\ UNCHANGED notBoot

\* application.py line 24 and comment_fetcher.py lines 10-13, 20-25, 458; then
\* the blueprints (lines 27-29) and main() up to its line 146.
ImportCommentFetcher ==
    /\ bpc = "application.24"
    /\ ImportDone("comment_fetcher", "main.146")
    /\ UNCHANGED <<environ, warnings>>
    /\ UNCHANGED notBoot

\* config.py lines 55-79, validate_required_env_vars: the missing required
\* variables and the warnings.
RequiredMissing(env) == IF env["YOUTUBE_API_KEY"] THEN {} ELSE {"YOUTUBE_API_KEY"}

OptionalMissing(env) ==
    (IF env["MONGODB_URI"] THEN {} ELSE {"MONGODB_URI"})
        \cup (IF RedditConfigured(env) THEN {} ELSE {"Reddit API credentials"})

\* main.py lines 146-148 with validate_environment (lines 70-92): a ValueError
\* of validate_required_env_vars ends the process with sys.exit(1).
ValidateEnvironment ==
    /\ bpc = "main.146"
    /\ IF RequiredMissing(environ) # {}
       THEN /\ process' = "exit 1"
            /\ bpc' = "end"
            /\ UNCHANGED warnings
       ELSE /\ warnings' = OptionalMissing(environ)
            /\ bpc' = "main.155"
            /\ UNCHANGED process
    /\ UNCHANGED <<environ, singletons>>
    /\ UNCHANGED notBoot

\* main.py lines 155-161 and application.py lines 32-113: create_app; a failed
\* test_connection is logged as a warning.
CreateApp ==
    /\ bpc = "main.155"
    /\ bpc' = "main.178"
    /\ UNCHANGED <<environ, singletons, warnings, process>>
    /\ UNCHANGED notBoot

\* main.py lines 178-184: app.run(...)
Run ==
    /\ bpc = "main.178"
    /\ process' = "serving"
    /\ bpc' = "end"
    /\ UNCHANGED <<environ, singletons, warnings>>
    /\ UNCHANGED notBoot

NextBoot ==
    \/ ImportDatabaseService
    \/ ImportAiService
    \/ ImportYoutubeService
    \/ ImportRedditService
    \/ ImportCommentFetcher
    \/ ValidateEnvironment
    \/ CreateApp
    \/ Run

\* =====================================================================
\* The search_results collection: cleanup and listing
\* (routes/database_routes.py cleanup_database, database.py list_search_results)
\* =====================================================================

BatchIds == {"b1", "b2"}

\* 'timestamp' values; two documents may carry the same one.
Stamps == 1..2

\* keep_latest of the request body; 100 when the body does not give it (line 197).
KeepDefault == 100

KeepValues == (0..MaxRecords) \cup {KeepDefault}

\* What one call of connect() meets when it makes an attempt (lines 22-63, with
\* MONGODB_URI configured): MongoClient(...) raises, the ping raises, or both succeed.
AttemptOutcomes == {"ctor_raises", "ping_raises", "ok"}

\* connect() as one call (lines 19-65) on the handles s = [client, db], each set
\* or not: what it returns and what it leaves in the handles. The outcome is
\* "no_uri" when MONGODB_URI is not configured (lines 27-29).
Connect(s, o) ==
    IF s.client
    THEN [ret |-> TRUE, svc |-> s]
    ELSE IF o \in {"no_uri", "ctor_raises"} THEN [ret |-> FALSE, svc |-> s]
    ELSE IF o = "ping_raises" THEN [ret |-> FALSE, svc |-> [client |-> TRUE, db |-> FALSE]]
    ELSE [ret |-> TRUE, svc |-> [client |-> TRUE, db |-> TRUE]]

\* get_database (lines 67-71): None unless connect() succeeds, else self.db.
GetDatabase(s, o) ==
    LET c == Connect(s, o) IN [db |-> c.ret /\ c.svc.db, svc |-> c.svc]

\* The orders in which find({}).sort('timestamp', dir) can return the documents
\* (dir = 1 ascending, -1 descending): the server fixes no order among equal keys.
SortOrders(docs, dir) ==
    {p \in [1..Len(docs) -> 1..Len(docs)] :
        /\ \A i, j \in 1..Len(docs) : i # j => p[i] # p[j]
        /\ \A i, j \in 1..Len(docs) :
             i < j => dir * docs[p[i]].timestamp <= dir * docs[p[j]].timestamp}

Sorted(docs, p) == [i \in 1..Len(docs) |-> docs[p[i]]]

Min(a, b) == IF a <= b THEN a ELSE b

\* The Python slice s[:n]: the first n items, or all but the last -n when n < 0
\* (s[:-0] is s[:0], the empty list).
SliceTo(s, n) ==
    IF n >= 0 THEN SubSeq(s, 1, Min(n, Len(s)))
    ELSE SubSeq(s, 1, Max(0, Len(s) + n))

\* delete_many({'batch_id': {'$in': ids}}): the documents that stay.
RECURSIVE DeleteMany(_, _)
DeleteMany(docs, ids) ==
    IF docs = <<>> THEN <<>>
    ELSE IF Head(docs).batch_id \in ids
         THEN DeleteMany(Tail(docs), ids)
         ELSE <<Head(docs)>> \o DeleteMany(Tail(docs), ids)

NoCleanupResponse == [status |-> 0, deleted_count |-> -1, remaining_records |-> -1]

AdminStart ==
    /\ svc = [client |-> FALSE, db |-> FALSE]
    /\ adpc = "idle"
    /\ keep_latest = KeepDefault
    /\ all_records = <<>>
    /\ cleanup_response = NoCleanupResponse
    /\ listed = <<>>

\* The collection holds up to MaxRecords documents; _id is the insertion position.
InitAdmin ==
    /\ \E n \in 0..MaxRecords :
         \E b \in [1..n -> BatchIds], ts \in [1..n -> Stamps] :
            records = [i \in 1..n |-> [id |-> i, batch_id |-> b[i], timestamp |-> ts[i]]]
    /\ before = records
    /\ AdminStart

AdminIdle ==
    /\ records = <<>>
    /\ before = <<>>
    /\ AdminStart

\* cleanup_database lines 196-202: the body, get_database, and the 500 when it
\* gives None.
CleanupRequest ==
    /\ adpc = "idle"
    /\ \E k \in KeepValues, o \in AttemptOutcomes :
         LET g == GetDatabase(svc, o) IN
         /\ keep_latest' = k
         /\ svc' = g.svc
         /\ before' = records
         /\ IF g.db
            THEN /\ adpc' = "l207"
                 /\ cleanup_response' = NoCleanupResponse
            ELSE /\ adpc' = "idle"
                 /\ cleanup_response' = [NoCleanupResponse EXCEPT !.status = 500]
    /\ all_records' = <<>>
    /\ UNCHANGED <<records, listed>>
    /\ UNCHANGED notAdmin

\* lines 207-208: all_records = list(collection.find({}).sort('timestamp', 1));
\* an exception of the driver is answered with 500 (lines 229-231).
CleanupFind ==
    /\ adpc = "l207"
    /\ \/ \E p \in SortOrders(records, 1) :
            /\ all_records' = Sorted(records, p)
            /\ adpc' = "l210"
            /\ UNCHANGED cleanup_response
       \/ /\ adpc' = "idle"
          /\ cleanup_response' = [NoCleanupResponse EXCEPT !.status = 500]
          /\ UNCHANGED all_records
    /\ UNCHANGED <<records, before, svc, keep_latest, listed>>
    /\ UNCHANGED notAdmin

\* lines 209-227: nothing to do when total_records <= keep_latest; else
\* delete_many on the batch ids of all_records[:-keep_latest] and the counts.
CleanupDelete ==
    /\ adpc = "l210"
    /\ LET total_records == Len(all_records)
           records_to_delete == SliceTo(all_records, 0 - keep_latest)
           batch_ids_to_delete == {records_to_delete[i].batch_id :
                                      i \in 1..Len(records_to_delete)}
           kept == DeleteMany(records, batch_ids_to_delete)
           deleted_count == Len(records) - Len(kept)
       IN IF total_records <= keep_latest
          THEN /\ cleanup_response' = [status |-> 200, deleted_count |-> 0,
                                       remaining_records |-> -1]
               /\ UNCHANGED <<records, listed>>
          ELSE /\ records' = kept
               /\ cleanup_response' = [status |-> 200, deleted_count |-> deleted_count,
                                       remaining_records |-> total_records - deleted_count]
               /\ listed' = IF kept = records THEN listed ELSE <<>>
    /\ adpc' = "idle"
    /\ UNCHANGED <<before, svc, keep_latest, all_records>>
    /\ UNCHANGED notAdmin

\* The entry list_search_results builds of one document (lines 184-194).
ListEntry(doc) == [batch_id |-> doc.batch_id, timestamp |-> doc.timestamp, id |-> doc.id]

\* list_search_results (lines 164-202) as one call: [] when connect() fails, when
\* self.db is None (TypeError at line 170) or when the driver raises (line 200);
\* else the entries, newest first.
ListSearchResults ==
    /\ adpc = "idle"
    /\ Len(listed) < MaxLists
    /\ \E o \in AttemptOutcomes, find_raises \in BOOLEAN :
         LET c == Connect(svc, o) IN
         /\ svc' = c.svc
         /\ IF c.ret /\ c.svc.db /\ ~find_raises
            THEN \E p \in SortOrders(records, -1) :
                    listed' = Append(listed, [i \in 1..Len(records) |->
                                                 ListEntry(Sorted(records, p)[i])])
            ELSE listed' = Append(listed, <<>>)
    /\ UNCHANGED <<records, before, adpc, keep_latest, all_records, cleanup_response>>
    /\ UNCHANGED notAdmin

NextAdmin ==
    \/ CleanupRequest
    \/ CleanupFind
    \/ CleanupDelete
    \/ ListSearchResults

\* =====================================================================
\* Query variations (services/ai_service.py generate_query_variations,
\* routes/search_routes.py lines 35-42)
\* =====================================================================

\* The original query of the request (stripped and validated by the route).
tQuery == <<"q", "0">>

\* data.get('num_variations', 20) of search_routes.py line 38
RouteNumVariations == 20

\* config.NUM_QUERY_VARIATIONS (config.py line 39)
NUM_QUERY_VARIATIONS == 20

\* What the request body holds under 'num_variations': nothing, null, an integer,
\* or a value of another type (a string).
NumBodies ==
    {[kind |-> "absent", value |-> 0], [kind |-> "null", value |-> 0],
     [kind |-> "other", value |-> 0]}
        \cup {[kind |-> "int", value |-> n] : n \in (0 - 1)..MaxLines}

\* The lines Gemini may answer with: a numbered variation, a line without a
\* number, a number with nothing after it, a number without a dot, a blank line.
ResponseLines ==
    {<<"1", ".", " ", "a", "b">>, <<"a", "b", "c">>, <<"2", ".">>,
     <<"3", " ", "c">>, <<" ">>}

\* generate_content(prompt) raises, or response.text holds these lines.
AiResponses ==
    {[raises |-> TRUE, lines |-> <<>>]}
        \cup {[raises |-> FALSE, lines |-> l] :
                 l \in UNION {[1..n -> ResponseLines] : n \in 0..MaxLines}}

IsDigit(c) == c \in {"0", "1", "2", "3", "4", "5", "6", "7", "8", "9"}

\* line 63: any(char.isdigit() for char in line[:3])
DigitInFirst3(line) == \E i \in 1..Min(3, Len(line)) : IsDigit(line[i])

\* line 65: line.split('.', 1)[-1], the text after the first dot, or the whole
\* line when it has none.
AfterFirstDot(line) ==
    IF \E i \in 1..Len(line) : line[i] = "."
    THEN LET d == CHOOSE i \in 1..Len(line) :
                     line[i] = "." /\ \A j \in 1..(i - 1) : line[j] # "."
         IN SubSeq(line, d + 1, Len(line))
    ELSE line

\* lines 60-67: the variations parsed from the lines of the response.
RECURSIVE ParseVariations(_)
ParseVariations(lines) ==
    IF lines = <<>> THEN <<>>
    ELSE LET line == Strip(Head(lines))
             variation == Strip(AfterFirstDot(line))
         IN (IF line # <<>> /\ DigitInFirst3(line) /\ variation # <<>>
             THEN <<variation>> ELSE <<>>) \o ParseVariations(Tail(lines))

\* line 38 of the route and lines 31-32 of the service: the number asked for.
NumVariations(body) ==
    IF body.kind = "absent" THEN RouteNumVariations
    ELSE IF body.kind = "null" THEN NUM_QUERY_VARIATIONS
    ELSE body.value

\* generate_query_variations (lines 25-88). A num_variations that is no integer
\* makes the slice of line 75 raise TypeError, caught at line 85.
GenerateQueryVariations(original_query, available, body, resp) ==
    IF ~available THEN <<original_query>>
    ELSE IF resp.raises THEN <<original_query>>
    ELSE LET variations == ParseVariations(resp.lines) IN
         IF variations = <<>> THEN <<original_query>>
         ELSE IF body.kind = "other" THEN <<original_query>>
         ELSE SliceTo(variations, NumVariations(body))

VaryStart ==
    /\ vpc = "l36"
    /\ query_variations = <<>>
    /\ vary_status = 0

InitVary ==
    /\ ai_available \in BOOLEAN
    /\ num_body \in NumBodies
    /\ ai_response \in AiResponses
    /\ VaryStart

VaryIdle ==
    /\ ai_available = TRUE
    /\ num_body = [kind |-> "absent", value |-> 0]
    /\ ai_response = [raises |-> TRUE, lines |-> <<>>]
    /\ VaryStart

\* search_routes.py lines 36-39: the call of generate_query_variations.
SearchGenerate ==
    /\ vpc = "l36"
    /\ query_variations' =
           GenerateQueryVariations(tQuery, ai_available, num_body, ai_response)
    /\ vpc' = "l41"
    /\ UNCHANGED <<ai_available, num_body, ai_response, vary_status>>
    /\ UNCHANGED notVary

\* search_routes.py lines 41-42: if not query_variations: return ..., 500; else
\* the aggregation of line 50 is next.
SearchCheckVariations ==
    /\ vpc = "l41"
    /\ IF query_variations = <<>>
       THEN vary_status' = 500 /\ vpc' = "done"
       ELSE vary_status' = 0 /\ vpc' = "l50"
    /\ UNCHANGED <<ai_available, num_body, ai_response, query_variations>>
    /\ UNCHANGED notVary

NextVary ==
    \/ SearchGenerate
    \/ SearchCheckVariations

\* =====================================================================
\* validate_query (utils/helpers.py)
\* =====================================================================

\* A query is held as its runs of equal characters, <<[ch, n], ...>> standing for
\* ch repeated n times, so that queries of 500 characters can be told apart
\* from queries of 499 and 501.
InvalidChars == {"<", ">", "\"", "'", "&"}

QueryChars == {" ", "a"} \cup InvalidChars

RunLens == {1, 499}

QueryRuns == [ch : QueryChars, n : RunLens]

\* len(query)
RECURSIVE RunsLen(_)
RunsLen(q) == IF q = <<>> THEN 0 ELSE Head(q).n + RunsLen(Tail(q))

RECURSIVE LStripRuns(_)
LStripRuns(q) == IF q = <<>> THEN <<>>
                 ELSE IF IsSpace(Head(q).ch) THEN LStripRuns(Tail(q)) ELSE q

RECURSIVE RStripRuns(_)
RStripRuns(q) == IF q = <<>> THEN <<>>
                 ELSE IF IsSpace(q[Len(q)].ch) THEN RStripRuns(SubSeq(q, 1, Len(q) - 1))
                 ELSE q

\* query.strip()
StripRuns(q) == RStripRuns(LStripRuns(q))

\* A length test that rejects 500 characters as well.
TooLongFrom500(n) == n >= 500

\* line 104: len(query) > 500
TooLong(n) == n > 500

\* line 108: re.search(r'[<>\"\'&]', query)
HasInvalidChar(q) == \E i \in 1..Len(q) : q[i].ch \in InvalidChars

\* validate_query (lines 94-111)
ValidateQuery(query) ==
    IF query = <<>> \/ StripRuns(query) = <<>>
    THEN [ok |-> FALSE, message |-> "Query cannot be empty"]
    ELSE LET q == StripRuns(query) IN
         IF RunsLen(q) < 2
         THEN [ok |-> FALSE, message |-> "Query must be at least 2 characters long"]
         ELSE IF TooLong(RunsLen(q))
         THEN [ok |-> FALSE, message |-> "Query must be less than 500 characters"]
         ELSE IF HasInvalidChar(q)
         THEN [ok |-> FALSE, message |-> "Query contains invalid characters"]
         ELSE [ok |-> TRUE, message |-> "Query is valid"]

NoValidation == [ok |-> FALSE, message |-> ""]

InitQuery ==
    /\ vquery \in UNION {[1..n -> QueryRuns] : n \in 0..MaxRuns}
    /\ validation = NoValidation

QueryIdle ==
    /\ vquery = <<>>
    /\ validation = NoValidation

\* The call validate_query(query) of the routes (search_routes.py lines 27, 141,
\* 234).
Validate ==
    /\ validation = NoValidation
    /\ validation' = ValidateQuery(vquery)
    /\ UNCHANGED vquery
    /\ UNCHANGED notQuery

NextQuery == Validate

\* =====================================================================
\* sanitize_filename (utils/file_utils.py)
\* =====================================================================

\* A letter outside ASCII: str.isalnum() is true of it and lower() leaves it.
eAcute == "e-acute"

\* The characters of the names tried, held as runs like the queries.
NameChars == {" ", "_", "-", "a", "B", "!", eAcute}

NameRuns == [ch : NameChars, n : RunLens]

\* Config.MAX_FILENAME_LENGTH (config.py line 45)
MAX_FILENAME_LENGTH == 50

\* c.isalnum(), for the characters that occur
IsAlnum(c) == c \notin {" ", "_", "-", "!"}

\* c.lower()
LowerChar(c) == IF c = "B" THEN "b" ELSE c

\* One character each: the literals "unknown_file" and "file".
Literal(chars) == [i \in 1..Len(chars) |-> [ch |-> chars[i], n |-> 1]]

UnknownFile == Literal(<<"u", "n", "k", "n", "o", "w", "n", "_", "f", "i", "l", "e">>)

FileLiteral == Literal(<<"f", "i", "l", "e">>)

\* line 17: .replace(' ', '_')
ReplaceSpaces(q) == [i \in 1..Len(q) |-> [q[i] EXCEPT !.ch = IF @ = " " THEN "_" ELSE @]]

\* line 20: ''.join(c for c in sanitized if c.isalnum() or c in '_-')
RECURSIVE KeepNameChars(_)
KeepNameChars(q) ==
    IF q = <<>> THEN <<>>
    ELSE (IF IsAlnum(Head(q).ch) \/ Head(q).ch \in {"_", "-"} THEN <<Head(q)>> ELSE <<>>)
             \o KeepNameChars(Tail(q))

\* lines 23-24: while '__' in sanitized: sanitized = sanitized.replace('__', '_');
\* the loop ends with every stretch of underscores reduced to one.
RECURSIVE LStripUnderscores(_)
LStripUnderscores(q) ==
    IF q = <<>> THEN <<>>
    ELSE IF Head(q).ch = "_" THEN LStripUnderscores(Tail(q)) ELSE q

RECURSIVE CollapseUnderscores(_)
CollapseUnderscores(q) ==
    IF q = <<>> THEN <<>>
    ELSE IF Head(q).ch = "_"
         THEN <<[ch |-> "_", n |-> 1]>> \o CollapseUnderscores(LStripUnderscores(Tail(q)))
         ELSE <<Head(q)>> \o CollapseUnderscores(Tail(q))

\* lines 27-29: sanitized[:max_length]
RECURSIVE Truncate(_, _)
Truncate(q, m) ==
    IF q = <<>> \/ m <= 0 THEN <<>>
    ELSE IF Head(q).n <= m THEN <<Head(q)>> \o Truncate(Tail(q), m - Head(q).n)
    ELSE <<[Head(q) EXCEPT !.n = m]>>

\* line 32: sanitized.rstrip('_')
RECURSIVE RStripUnderscores(_)
RStripUnderscores(q) ==
    IF q = <<>> THEN <<>>
    ELSE IF q[Len(q)].ch = "_" THEN RStripUnderscores(SubSeq(q, 1, Len(q) - 1))
    ELSE q

\* line 38: sanitized.lower()
LowerRuns(q) == [i \in 1..Len(q) |-> [q[i] EXCEPT !.ch = LowerChar(@)]]

\* sanitize_filename (lines 11-38)
SanitizeFilename(filename) ==
    IF filename = <<>> \/ StripRuns(filename) = <<>> THEN UnknownFile
    ELSE LET kept == KeepNameChars(ReplaceSpaces(StripRuns(filename)))
             cut == Truncate(CollapseUnderscores(kept), MAX_FILENAME_LENGTH)
             stripped == RStripUnderscores(cut)
         IN LowerRuns(IF stripped = <<>> THEN FileLiteral ELSE stripped)

InitName ==
    /\ fname \in UNION {[1..n -> NameRuns] : n \in 0..MaxRuns}
    /\ sanitized = <<>>

NameIdle ==
    /\ fname = <<>>
    /\ sanitized = <<>>

\* sanitize_filename(query) (comment_fetcher.py line 378, testing_routes.py line 33)
Sanitize ==
    /\ sanitized = <<>>
    /\ sanitized' = <<SanitizeFilename(fname)>>
    /\ UNCHANGED fname
    /\ UNCHANGED notName

\* The output is sanitized again.
SanitizeAgain ==
    /\ Len(sanitized) = 1
    /\ sanitized' = Append(sanitized, SanitizeFilename(sanitized[1]))
    /\ UNCHANGED fname
    /\ UNCHANGED notName

NextName ==
    \/ Sanitize
    \/ SanitizeAgain

\* =====================================================================
\* The relevance filter of the discussion platform (services/reddit_service.py)
\* =====================================================================

\* The words a query may hold.
QueryWords ==
    {<<"a", "B">>, <<"a", "b", "c", "d">>, <<"a", "b", "c", "d", "e">>, <<"x", "y">>}

\* The bodies of the comments met: up to two of these words, a space between.
BodyWords ==
    {<<"a", "b">>, <<"a", "B", "c", "d">>, <<"a", "b", "c", "d", "e">>, <<"x", "y">>,
     <<"z", "z">>}

Bodies ==
    {<<>>} \cup BodyWords \cup {a \o <<" ">> \o b : a \in BodyWords, b \in BodyWords}

\* text.lower()
LowerText(t) == [i \in 1..Len(t) |-> LowerChar(t[i])]

\* term in text
Contains(text, term) ==
    \E i \in 1..(Len(text) - Len(term) + 1) : SubSeq(text, i, i + Len(term) - 1) = term

\* lines 122-125: query_terms = set(query.lower().split()), and for a query of
\* one word longer than 3 characters its first 4 characters as well.
QueryTerms(words) ==
    LET terms == {LowerText(words[i]) : i \in 1..Len(words)} IN
    IF Cardinality(terms) = 1 /\ \A t \in terms : Len(t) > 3
    THEN terms \cup {SubSeq(t, 1, 4) : t \in terms}
    ELSE terms

\* A filter that wants every term matched.
ThresholdAll(n) == n

\* line 83: max(1, len(query_terms) // 2)
Threshold(n) == Max(1, n \div 2)

\* lines 73-79: matching_terms, counted in halves
TwiceMatching(comment_lower, terms) ==
    2 * Cardinality({t \in terms : Contains(comment_lower, t)})
        + (IF /\ Cardinality(terms) = 1
              /\ \A t \in terms : Len(t) > 3 /\ Contains(comment_lower, SubSeq(t, 1, 4))
           THEN 1 ELSE 0)

\* filter_comment_relevance (lines 68-85)
FilterCommentRelevance(comment_text, terms) ==
    LET comment_lower == LowerText(comment_text) IN
    IF Cardinality(terms) > 1
    THEN TwiceMatching(comment_lower, terms) >= 2 * Threshold(Cardinality(terms))
    ELSE TwiceMatching(comment_lower, terms) > 0

RelStart ==
    /\ rpc = "l122"
    /\ query_terms = {}
    /\ relevant = "unset"

InitRel ==
    /\ rquery \in UNION {[1..n -> QueryWords] : n \in 0..MaxWords}
    /\ reddit_body \in Bodies
    /\ RelStart

RelIdle ==
    /\ rquery = <<>>
    /\ reddit_body = <<>>
    /\ RelStart

\* get_comments_from_subreddit lines 122-125
PrepareTerms ==
    /\ rpc = "l122"
    /\ query_terms' = QueryTerms(rquery)
    /\ rpc' = "l131"
    /\ UNCHANGED <<rquery, reddit_body, relevant>>
    /\ UNCHANGED notRel

\* line 131: self.filter_comment_relevance(comment.body, query_terms)
FilterComment ==
    /\ rpc = "l131"
    /\ relevant' = IF FilterCommentRelevance(reddit_body, query_terms) THEN "True" ELSE "False"
    /\ rpc' = "done"
    /\ UNCHANGED <<rquery, reddit_body, query_terms>>
    /\ UNCHANGED notRel

NextRel ==
    \/ PrepareTerms
    \/ FilterComment

\* =====================================================================
\* The legacy helper get_mongo_client (app.py) beside DatabaseService.connect
\* =====================================================================

\* get_mongo_client as one call (app.py lines 35-78) on the globals
\* g = [client, db]: every except clause resets both globals to None, and the
\* call returns the pair (mongo_client, db).
GetMongoClient(g, o) ==
    IF g.client THEN g
    ELSE IF o = "no_uri" THEN g
    ELSE IF o = "ok" THEN [client |-> TRUE, db |-> TRUE]
    ELSE [client |-> FALSE, db |-> FALSE]

\* Whether the call constructs a MongoClient: app.py line 49 and database.py
\* line 31 are reached when the handle is None and the URI is configured.
MakesAttempt(s, o) == ~s.client /\ o # "no_uri"

NoHandles == [client |-> FALSE, db |-> FALSE]

NoComparison == [legacy_connected |-> FALSE, modular_connected |-> FALSE,
                 legacy_attempt |-> FALSE, modular_attempt |-> FALSE]

LegacyStart ==
    /\ legacy = NoHandles
    /\ modular = NoHandles
    /\ outcomes = <<>>
    /\ compared = NoComparison

\* MONGODB_URI is configured or not for the life of both processes.
InitLegacy ==
    /\ uri_configured \in BOOLEAN
    /\ LegacyStart

LegacyIdle ==
    /\ uri_configured = TRUE
    /\ LegacyStart

\* One call of each helper, both meeting the same outcome of the database.
ConnectBoth ==
    /\ Len(outcomes) < MaxCalls
    /\ \E o \in (IF uri_configured THEN AttemptOutcomes ELSE {"no_uri"}) :
         LET g == GetMongoClient(legacy, o)
             c == Connect(modular, o)
         IN /\ legacy' = g
            /\ modular' = c.svc
            /\ outcomes' = Append(outcomes, o)
            /\ compared' = [legacy_connected |-> g.client,
                            modular_connected |-> c.ret,
                            legacy_attempt |-> MakesAttempt(legacy, o),
                            modular_attempt |-> MakesAttempt(modular, o)]
    /\ UNCHANGED uri_configured
    /\ UNCHANGED notLegacy

NextLegacy == ConnectBoth

\* =====================================================================
\* The files of save_unified_data (services/comment_fetcher.py lines 376-441)
\* =====================================================================

\* The string of some runs, as runs none of which continues the one before.
RECURSIVE Canon(_)
Canon(q) ==
    IF Len(q) <= 1 THEN q
    ELSE IF q[1].ch = q[2].ch
         THEN Canon(<<[ch |-> q[1].ch, n |-> q[1].n + q[2].n]>> \o SubSeq(q, 3, Len(q)))
         ELSE <<q[1]>> \o Canon(Tail(q))

\* The requests that save: Flask serves them on threads of their own.
Savers == 1..NSaves

\* The queries saved: "a B" and "a_b" are sanitized to the same "a_b".
SavedQueries ==
    {<<[ch |-> "a", n |-> 1], [ch |-> " ", n |-> 1], [ch |-> "B", n |-> 1]>>,
     <<[ch |-> "a", n |-> 1], [ch |-> "_", n |-> 1], [ch |-> "b", n |-> 1]>>,
     <<[ch |-> "a", n |-> 1]>>}

\* line 378: sanitize_filename(query) of each query saved
SanitizedQuery == [q \in SavedQueries |-> Canon(SanitizeFilename(q))]

\* str(uuid.uuid4())[:8]: the first 8 hexadecimal digits of a random UUID, that
\* is 32 random bits; nothing keeps two calls from drawing the same.
UuidPrefixes == {"1a2b3c4d", "5e6f7a8b"}

\* A file name prefix that leaves the batch id out.
FilenamePrefixNoBatch(lead, sq, mid, ts, id) ==
    [lead |-> lead, query |-> sq, mid |-> mid, timestamp |-> ts, batch_id |-> ""]

\* The f-strings of lines 427 and 439, kept as their parts: the timestamp
\* (15 characters) and the batch id (8) have a fixed width and the parts between
\* them are literals, so two prefixes are the same string exactly when their
\* parts are the same.
FilenamePrefix(lead, sq, mid, ts, id) ==
    [lead |-> lead, query |-> sq, mid |-> mid, timestamp |-> ts, batch_id |-> id]

\* save_to_json_file lines 58-59: os.path.join(directory, f"{filename_prefix}.json")
FilePath(directory, filename_prefix) ==
    [directory |-> directory, prefix |-> filename_prefix, ext |-> ".json"]

\* lines 419-428: the path of the videos file, in config.DATA_DIRECTORY
VideosPath(s) ==
    FilePath("data", FilenamePrefix("", s.sanitized_query, "_videos_", s.timestamp,
                                    s.batch_id))

\* lines 430-440: the path of the history file, in config.HISTORY_DIRECTORY
HistoryPath(s) ==
    FilePath("history", FilenamePrefix("unique_comments_", s.sanitized_query, "_",
                                       s.timestamp, s.batch_id))

NoSaver == [pc |-> "l376", query |-> <<>>, batch_id |-> "", timestamp |-> 0,
            sanitized_query |-> <<>>]

InitFiles ==
    /\ savers = [c \in Savers |-> NoSaver]
    /\ clock = 1
    /\ files_written = {}

FilesIdle == InitFiles

\* lines 376-378: batch_id, timestamp and sanitized_query of one call. The
\* calls are numbered in the order they reach line 376, and
\* datetime.now().strftime('%Y%m%d_%H%M%S') of line 377 is the second of the
\* call before or a later one.
FilesBegin(c) ==
    /\ savers[c].pc = "l376"
    /\ \A d \in Savers : d < c => savers[d].pc # "l376"
    /\ \E q \in SavedQueries, id \in UuidPrefixes, now_s \in clock..MaxSecond :
         /\ savers' = [savers EXCEPT ![c] = [pc |-> "l419", query |-> q,
                                             batch_id |-> id, timestamp |-> now_s,
                                             sanitized_query |-> SanitizedQuery[q]]]
         /\ clock' = now_s
    /\ UNCHANGED files_written
    /\ UNCHANGED notFiles

\* save_to_json_file (file_utils.py lines 51-71): open(filepath, 'w') creates the
\* file or truncates the one that is there; on an exception nothing is reported
\* but None.
WriteFile(c, path, ok) ==
    files_written' = IF ok THEN files_written \cup {[path |-> path, by |-> c]}
                     ELSE files_written

\* lines 419-428: the videos file
WriteVideos(c) ==
    /\ savers[c].pc = "l419"
    /\ \E ok \in BOOLEAN : WriteFile(c, VideosPath(savers[c]), ok)
    /\ savers' = [savers EXCEPT ![c].pc = "l431"]
    /\ UNCHANGED clock
    /\ UNCHANGED notFiles

\* lines 430-441: the history file
WriteHistory(c) ==
    /\ savers[c].pc = "l431"
    /\ \E ok \in BOOLEAN : WriteFile(c, HistoryPath(savers[c]), ok)
    /\ savers' = [savers EXCEPT ![c].pc = "done"]
    /\ UNCHANGED clock
    /\ UNCHANGED notFiles

NextFiles ==
    \E c \in Savers :
        \/ FilesBegin(c)
        \/ WriteVideos(c)
        \/ WriteHistory(c)

\* =====================================================================
\* The counts of a search: the saved document beside the response
\* (routes/search_routes.py lines 59-122 and 158-194, comment_fetcher.py
\* lines 389-413)
\* =====================================================================

\* The content items of the queries that were fetched: one list for
\* /api/search/simple, one per processed query variation for /api/search.
FetchedLists(e) ==
    IF e = "simple" THEN {<<v>> : v \in QueryVideoLists}
    ELSE UNION {[1..n -> QueryVideoLists] : n \in 1..MaxVariations}

\* The dict fetch_multiple_queries_aggregated returns (lines 207-324) after the
\* queries whose fetches accumulated the given lists, in this order.
RECURSIVE Aggregated(_, _)
Aggregated(acc, lists) ==
    IF lists = <<>>
    THEN [videos |-> acc.videos,
          unique_count |-> Len(acc.unique),
          total_processed_comments |-> acc.comments,
          total_processed_replies |-> acc.replies,
          grand_total |-> acc.comments + acc.replies]
    ELSE LET r == FetchReturned(Head(lists))
         IN  Aggregated(
                 IF r.videos = <<>> THEN acc
                 ELSE [videos |-> acc.videos \o r.videos,
                       unique |-> MergeUnique(acc.unique,
                                              GetUniqueCommentsUnified(r.videos).unique),
                       comments |-> acc.comments + r.total_comments,
                       replies |-> acc.replies + r.total_replies],
                 Tail(lists))

AggregationResult(lists) ==
    Aggregated([videos |-> <<>>, unique |-> <<>>, comments |-> 0, replies |-> 0], lists)

\* What the handler has after its fetch, by endpoint. search (lines 50-67): the
\* aggregation result and the counts extracted from it. simple_search (lines
\* 149-162): the result of fetch_all_comments_parallel, and unique_count and
\* total_replies as get_unique_comments_unified returned them.
Fetched(e, lists) ==
    IF e = "search"
    THEN LET a == AggregationResult(lists)
         IN  [videos |-> a.videos,
              total_comments |-> a.total_processed_comments,
              total_replies |-> a.total_processed_replies,
              grand_total |-> a.grand_total,
              unique_count |-> a.unique_count,
              unique_replies |-> 0]
    ELSE LET r == FetchReturned(lists[1])
             u == GetUniqueCommentsUnified(r.videos)
         IN  [videos |-> r.videos,
              total_comments |-> r.total_comments,
              total_replies |-> r.total_replies,
              grand_total |-> r.total_comments + r.total_replies,
              unique_count |-> u.total_comments,
              unique_replies |-> u.total_replies]

\* The arguments total_replies and total_comments of the call of
\* save_unified_data: search passes total_replies and grand_total (lines 86-87),
\* simple_search passes the total_replies of get_unique_comments_unified and
\* result['total_comments'] (lines 170-171).
SaveArguments(e, f) ==
    IF e = "search"
    THEN [unique_count |-> f.unique_count, total_replies |-> f.total_replies,
          total_comments |-> f.grand_total]
    ELSE [unique_count |-> f.unique_count, total_replies |-> f.unique_replies,
          total_comments |-> f.total_comments]

\* comment_fetcher.py lines 389-413: the counts of combined_data
DocumentCounts(a) ==
    [present |-> TRUE,
     total_comments |-> a.total_comments,
     total_replies |-> a.total_replies,
     grand_total |-> a.total_comments + a.total_replies,
     unique_comments |-> a.unique_count,
     duplicates_removed |-> a.total_comments - a.unique_count]

\* The counts of the response: search lines 104-107, simple_search lines 179-182
ResponseCounts(f) ==
    [present |-> TRUE,
     total_comments |-> f.total_comments,
     total_replies |-> f.total_replies,
     grand_total |-> f.grand_total,
     unique_comments |-> f.unique_count]

NoCounts == [present |-> FALSE]

CountsStart ==
    /\ cpc = "fetched"
    /\ document_counts = NoCounts
    /\ response_counts = NoCounts
    /\ response_status = 0

InitCounts ==
    /\ cendpoint \in {"search", "simple"}
    /\ fetched_lists \in FetchedLists(cendpoint)
    /\ CountsStart

CountsIdle ==
    /\ cendpoint = "simple"
    /\ fetched_lists = <<<<>>>>
    /\ CountsStart

\* search lines 59-60, simple_search lines 158-159: no content items, 404
CountsNoContent ==
    /\ cpc = "fetched"
    /\ Fetched(cendpoint, fetched_lists).videos = <<>>
    /\ response_status' = 404
    /\ cpc' = "responded"
    /\ UNCHANGED <<cendpoint, fetched_lists, document_counts, response_counts>>
    /\ UNCHANGED notCounts

\* search lines 81-89, simple_search lines 165-173: save_unified_data builds
\* combined_data of its arguments
CountsSave ==
    /\ cpc = "fetched"
    /\ Fetched(cendpoint, fetched_lists).videos # <<>>
    /\ document_counts' =
           DocumentCounts(SaveArguments(cendpoint, Fetched(cendpoint, fetched_lists)))
    /\ cpc' = "saved"
    /\ UNCHANGED <<cendpoint, fetched_lists, response_counts, response_status>>
    /\ UNCHANGED notCounts

\* search lines 96-122, simple_search lines 175-194: the response
CountsRespond ==
    /\ cpc = "saved"
    /\ response_counts' = ResponseCounts(Fetched(cendpoint, fetched_lists))
    /\ response_status' = 200
    /\ cpc' = "responded"
    /\ UNCHANGED <<cendpoint, fetched_lists, document_counts>>
    /\ UNCHANGED notCounts

NextCounts ==
    \/ CountsNoContent
    \/ CountsSave
    \/ CountsRespond

\* =====================================================================
\* The forums of the discussion platform (services/reddit_service.py):
\* search_subreddits and the fan-out of get_comments_parallel
\* =====================================================================

\* lines 33-38: the candidate forums
RelevantSubreddits ==
    <<"all", "AskReddit", "todayilearned", "news", "worldnews", "technology", "science",
      "politics", "gaming", "movies", "music", "books", "sports", "food", "travel",
      "history", "personalfinance", "investing", "explainlikeimfive", "askscience">>

\* lines 45-48: the words of the lowercased query longer than 3 characters, for
\* the query "tesla car".
QueryWordsOver3 == <<"tesla">>

\* The candidates probed, in order (lines 33-48).
Candidates == RelevantSubreddits \o QueryWordsOver3

\* The forums the platform may answer for: any of the first MaxForums
\* candidates; the probe of any other raises.
AccessibleSets == SUBSET {Candidates[i] : i \in 1..MaxForums}

\* lines 50-57: the candidates whose probe did not raise, in order
RECURSIVE FilteredSubreddits(_, _)
FilteredSubreddits(names, ok) ==
    IF names = <<>> THEN <<>>
    ELSE (IF Head(names) \in ok THEN <<Head(names)>> ELSE <<>>)
         \o FilteredSubreddits(Tail(names), ok)

\* line 66: the fallback of the except clause
FallbackSubreddits == <<"all", "AskReddit">>

\* search_subreddits(query, limit) (lines 29-66): raised tells that an
\* exception left the try block outside the probes, whose own exceptions are
\* swallowed by the bare except of line 56.
SearchSubreddits(raised, ok, limit) ==
    IF raised THEN FallbackSubreddits
    ELSE SliceTo(FilteredSubreddits(Candidates, ok), limit)

\* line 193: self.search_subreddits(query, limit=8)
SubredditLimit == 8

\* config.MAX_WORKERS: int(os.getenv('MAX_WORKERS', '4')), here with the
\* environment variable set to 2.
MAX_WORKERS == 2

\* config.MAX_REDDIT_COMMENTS (config.py line 35), the default total_limit
MAX_REDDIT_COMMENTS == 3000

\* line 202: max_workers=min(len(subreddits), self.config.MAX_WORKERS)
PoolSize(n) == Min(n, MAX_WORKERS)

\* line 197: max(100, total_limit // len(subreddits)), for len(subreddits) > 0
CommentsPerSubreddit(total_limit, n) == Max(100, total_limit \div n)

\* A comment of a forum, by its forum and its position in the forum's list.
ForumComment(name, k) == [subreddit |-> name, k |-> k]

\* What fetch_from_subreddit (lines 199-200) may do: raise, or return the list
\* get_comments_from_subreddit built.
ForumRaised == [raised |-> TRUE, comments |-> <<>>]
ForumReturned(list) == [raised |-> FALSE, comments |-> list]
ForumOutcomes(name) ==
    {ForumRaised, ForumReturned(<<>>), ForumReturned(<<ForumComment(name, 1)>>),
     ForumReturned(<<ForumComment(name, 1), ForumComment(name, 2)>>)}

NoFuture == [state |-> "none", outcome |-> ForumReturned(<<>>)]

Tasks == 1..MaxForums

Running == {i \in Tasks : futures[i].state = "running"}
Queued == {i \in Tasks : futures[i].state = "queued"}
Finished == {i \in Tasks : futures[i].state = "finished"}

NoParallelReturn == [returned |-> FALSE, comments |-> <<>>]

ForumsStart ==
    /\ gpc = "l193"
    /\ subreddits = <<>>
    /\ per_subreddit = 0
    /\ futures = [i \in Tasks |-> NoFuture]
    /\ finished_first = {}
    /\ waiter = <<>>
    /\ yielded = <<>>
    /\ completion = <<>>
    /\ all_comments = <<>>
    /\ parallel_ret = NoParallelReturn

InitForums ==
    /\ accessible \in AccessibleSets
    /\ search_raised \in BOOLEAN
    /\ ForumsStart

ForumsIdle ==
    /\ accessible = {}
    /\ search_raised = FALSE
    /\ ForumsStart

\* line 193: subreddits = self.search_subreddits(query, limit=8)
ParallelSearch ==
    /\ gpc = "l193"
    /\ subreddits' = SearchSubreddits(search_raised, accessible, SubredditLimit)
    /\ gpc' = "l197"
    /\ UNCHANGED <<accessible, search_raised, per_subreddit, futures, finished_first,
                   waiter, yielded, completion, all_comments, parallel_ret>>
    /\ UNCHANGED notForums

\* lines 196-197, and lines 217-219 when len(subreddits) is 0: the division
\* raises ZeroDivisionError and the except clause returns [].
ParallelShare ==
    /\ gpc = "l197"
    /\ IF Len(subreddits) = 0
       THEN /\ parallel_ret' = [returned |-> TRUE, comments |-> <<>>]
            /\ gpc' = "done"
            /\ UNCHANGED per_subreddit
       ELSE /\ per_subreddit' = CommentsPerSubreddit(MAX_REDDIT_COMMENTS, Len(subreddits))
            /\ gpc' = "l203"
            /\ UNCHANGED parallel_ret
    /\ UNCHANGED <<accessible, search_raised, subreddits, futures, finished_first, waiter,
                   yielded, completion, all_comments>>
    /\ UNCHANGED notForums

\* lines 202-206: one task is submitted for every forum, in order
ParallelSubmit ==
    /\ gpc = "l203"
    /\ futures' = [i \in Tasks |->
                      IF i <= Len(subreddits)
                      THEN [state |-> "queued", outcome |-> ForumReturned(<<>>)]
                      ELSE NoFuture]
    /\ gpc' = "l208"
    /\ UNCHANGED <<accessible, search_raised, subreddits, per_subreddit, finished_first,
                   waiter, yielded, completion, all_comments, parallel_ret>>
    /\ UNCHANGED notForums

\* ThreadPoolExecutor: a worker that is free takes the task submitted first
\* among those waiting; there are PoolSize(len(subreddits)) workers.
TaskStart(i) ==
    /\ gpc \in {"l208", "iterating"}
    /\ i \in Queued
    /\ \A j \in Queued : i <= j
    /\ Cardinality(Running) < PoolSize(Len(subreddits))
    /\ futures' = [futures EXCEPT ![i].state = "running"]
    /\ UNCHANGED <<accessible, search_raised, subreddits, per_subreddit, gpc,
                   finished_first, waiter, yielded, completion, all_comments,
                   parallel_ret>>
    /\ UNCHANGED notForums

\* A task ends: fetch_from_subreddit returned or raised. After as_completed was
\* called its waiter is told of the future (futures/_base.py).
TaskFinish(i) ==
    /\ i \in Running
    /\ \E o \in ForumOutcomes(subreddits[i]) :
         futures' = [futures EXCEPT ![i] = [state |-> "finished", outcome |-> o]]
    /\ completion' = Append(completion, i)
    /\ waiter' = IF gpc = "iterating" THEN Append(waiter, i) ELSE waiter
    /\ UNCHANGED <<accessible, search_raised, subreddits, per_subreddit, gpc,
                   finished_first, yielded, all_comments, parallel_ret>>
    /\ UNCHANGED notForums

\* line 208: as_completed(future_to_subreddit) is called: the futures that have
\* finished by now are put in a set, the others are waited for.
AsCompleted ==
    /\ gpc = "l208"
    /\ finished_first' = Finished
    /\ gpc' = "iterating"
    /\ UNCHANGED <<accessible, search_raised, subreddits, per_subreddit, futures, waiter,
                   yielded, completion, all_comments, parallel_ret>>
    /\ UNCHANGED notForums

\* Body that gives up the other forums on the first failure.
ExtendedUntilRaise(list, o) == IF o.raised THEN <<>> ELSE list \o o.comments

\* lines 209-215: comments = future.result(); all_comments.extend(comments),
\* or the except clause, which leaves all_comments alone.
Extended(list, o) == IF o.raised THEN list ELSE list \o o.comments

\* The future as_completed yields next: any of the set of those finished at
\* the call, in the order of the set; then the others as they finish.
NextYields ==
    IF finished_first # {} THEN finished_first
    ELSE IF waiter # <<>> THEN {Head(waiter)}
    ELSE {}

\* lines 208-215: one iteration of the loop over as_completed
ParallelCollect ==
    /\ gpc = "iterating"
    /\ \E i \in NextYields :
         /\ all_comments' = Extended(all_comments, futures[i].outcome)
         /\ yielded' = Append(yielded, i)
         /\ finished_first' = finished_first \ {i}
         /\ waiter' = IF finished_first = {} THEN Tail(waiter) ELSE waiter
    /\ UNCHANGED <<accessible, search_raised, subreddits, per_subreddit, futures, gpc,
                   completion, parallel_ret>>
    /\ UNCHANGED notForums

\* lines 215-218: every future was yielded, the with block ends and the list
\* is returned
ParallelReturn ==
    /\ gpc = "iterating"
    /\ Len(yielded) = Len(subreddits)
    /\ parallel_ret' = [returned |-> TRUE, comments |-> all_comments]
    /\ gpc' = "done"
    /\ UNCHANGED <<accessible, search_raised, subreddits, per_subreddit, futures,
                   finished_first, waiter, yielded, completion, all_comments>>
    /\ UNCHANGED notForums

NextForums ==
    \/ ParallelSearch
    \/ ParallelShare
    \/ ParallelSubmit
    \/ \E i \in Tasks : TaskStart(i)
    \/ \E i \in Tasks : TaskFinish(i)
    \/ AsCompleted
    \/ ParallelCollect
    \/ ParallelReturn

\* =====================================================================
\* retry_on_failure (utils/helpers.py lines 231-252)
\* =====================================================================

\* What a call of func does: return, raise an exception of one of the classes
\* of the parameter exceptions (by default Exception), or raise another one.
CallOutcomes == {"returns", "raises", "raises_other"}

Delays == {1, 3}
Backoffs == {1, 2, 3}

\* A delay that stays as it was.
NextDelaySame(d, b) == d

\* line 248: current_delay *= backoff
NextDelay(d, b) == d * b

\* line 241: if attempt == max_retries
IsLastAttempt(a, m) == a = m

NoWrapperResult == [kind |-> "none", of_call |-> 0]

RetryStart ==
    /\ wpc = "l236"
    /\ wattempt = -1
    /\ current_delay = delay
    /\ trace = <<>>
    /\ wrapper_result = NoWrapperResult

\* lines 231-234: the arguments, and current_delay = delay
InitRetry ==
    /\ max_retries \in -1..MaxWrapperRetries
    /\ delay \in Delays
    /\ backoff \in Backoffs
    /\ RetryStart

RetryIdle ==
    /\ max_retries = 0
    /\ delay = 1
    /\ backoff = 1
    /\ RetryStart

\* The calls of func made so far.
CallsMade == Len(SelectSeq(trace, LAMBDA e : e.event = "call"))

\* line 236: for attempt in range(max_retries + 1), and line 250 after the
\* last value: return None
RetryLoop ==
    /\ wpc = "l236"
    /\ IF wattempt + 1 < max_retries + 1
       THEN /\ wattempt' = wattempt + 1
            /\ wpc' = "l238"
            /\ UNCHANGED wrapper_result
       ELSE /\ wrapper_result' = [kind |-> "returned_none", of_call |-> 0]
            /\ wpc' = "done"
            /\ UNCHANGED wattempt
    /\ UNCHANGED <<max_retries, delay, backoff, current_delay, trace>>
    /\ UNCHANGED notRetry

\* lines 237-239: return func(*args, **kwargs); an exception the except clause
\* does not name leaves the wrapper.
RetryCall ==
    /\ wpc = "l238"
    /\ \E o \in CallOutcomes :
         /\ trace' = Append(trace, [event |-> "call", outcome |-> o, delay |-> 0])
         /\ IF o = "returns"
            THEN /\ wrapper_result' = [kind |-> "returned", of_call |-> CallsMade + 1]
                 /\ wpc' = "done"
            ELSE IF o = "raises_other"
            THEN /\ wrapper_result' = [kind |-> "raised", of_call |-> CallsMade + 1]
                 /\ wpc' = "done"
            ELSE /\ wpc' = "l241"
                 /\ UNCHANGED wrapper_result
    /\ UNCHANGED <<max_retries, delay, backoff, wattempt, current_delay>>
    /\ UNCHANGED notRetry

\* lines 240-248: the except clause: raise after the last attempt, else
\* time.sleep(current_delay) and current_delay *= backoff
RetryExcept ==
    /\ wpc = "l241"
    /\ IF IsLastAttempt(wattempt, max_retries)
       THEN /\ wrapper_result' = [kind |-> "raised", of_call |-> CallsMade]
            /\ wpc' = "done"
            /\ UNCHANGED <<trace, current_delay>>
       ELSE /\ trace' = Append(trace, [event |-> "sleep", outcome |-> "",
                                       delay |-> current_delay])
            /\ current_delay' = NextDelay(current_delay, backoff)
            /\ wpc' = "l236"
            /\ UNCHANGED wrapper_result
    /\ UNCHANGED <<max_retries, delay, backoff, wattempt>>
    /\ UNCHANGED notRetry

NextRetry ==
    \/ RetryLoop
    \/ RetryCall
    \/ RetryExcept

\* =====================================================================
\* The collections the database operations write (services/database.py,
\* routes/database_routes.py)
\* =====================================================================

\* The collections the code names: db['search_results'] (database.py line 113,
\* database_routes.py lines 142 and 205) and db.test_collection (database.py
\* lines 85 and 89).
CollectionNames == {"search_results", "test_collection"}

\* A collection the database does not hold; MongoDB creates a collection at the
\* first insert into it.
Absent == -1

\* insert_one into a collection: it is created if absent.
InsertOne(s, name) == [s EXCEPT ![name] = IF @ = Absent THEN 1 ELSE @ + 1]

\* delete_one / delete_many of n documents: the collection stays.
DeleteDocs(s, name, n) == [s EXCEPT ![name] = IF @ = Absent THEN Absent ELSE @ - n]

Documents(s, name) == IF s[name] = Absent THEN 0 ELSE s[name]

\* database.py lines 85 and 89: self.db.test_collection
TestCollection == "test_collection"

CollectionsStart ==
    /\ opc = "idle"
    /\ ops = 0
    /\ written_to = {}

InitCollections ==
    /\ store \in [CollectionNames -> {Absent}]
    /\ CollectionsStart

CollectionsIdle == InitCollections

\* An operation whose connect() fails (database.py lines 76-77 and 110-111,
\* database_routes.py lines 138-140 and 201-203) writes nothing.
OpNotConnected ==
    /\ opc = "idle"
    /\ ops < MaxOps
    /\ ops' = ops + 1
    /\ UNCHANGED <<store, opc, written_to>>
    /\ UNCHANGED notCollections

\* save_search_result (database.py lines 107-143): the insert of line 114, or
\* after the failure of line 118 the insert of line 135, or no insert at all.
OpSaveSearchResult ==
    /\ opc = "idle"
    /\ ops < MaxOps
    /\ \E inserted \in BOOLEAN :
         IF inserted
         THEN /\ store' = InsertOne(store, "search_results")
              /\ written_to' = written_to \cup {"search_results"}
         ELSE UNCHANGED <<store, written_to>>
    /\ ops' = ops + 1
    /\ UNCHANGED opc
    /\ UNCHANGED notCollections

\* delete_batch (database_routes.py lines 133-155): delete_one by batch_id
OpDeleteBatch ==
    /\ opc = "idle"
    /\ ops < MaxOps
    /\ \E n \in 0..Min(1, Documents(store, "search_results")) :
         /\ store' = DeleteDocs(store, "search_results", n)
         /\ written_to' = IF n > 0 THEN written_to \cup {"search_results"} ELSE written_to
    /\ ops' = ops + 1
    /\ UNCHANGED opc
    /\ UNCHANGED notCollections

\* cleanup_database (database_routes.py lines 194-231), line 221: delete_many of the
\* batches beyond keep_latest
OpCleanup ==
    /\ opc = "idle"
    /\ ops < MaxOps
    /\ \E n \in 0..Documents(store, "search_results") :
         /\ store' = DeleteDocs(store, "search_results", n)
         /\ written_to' = IF n > 0 THEN written_to \cup {"search_results"} ELSE written_to
    /\ ops' = ops + 1
    /\ UNCHANGED opc
    /\ UNCHANGED notCollections

\* test_connection (database.py lines 73-86): connected, the collections are
\* listed and the test document is inserted, unless the insert raises.
OpTestInsert ==
    /\ opc = "idle"
    /\ ops < MaxOps
    /\ \E inserted \in BOOLEAN :
         IF inserted
         THEN /\ store' = InsertOne(store, TestCollection)
              /\ written_to' = written_to \cup {TestCollection}
              /\ opc' = "l89"
         ELSE UNCHANGED <<store, written_to, opc>>
    /\ ops' = ops + 1
    /\ UNCHANGED notCollections

\* test_connection lines 88-92: the test document is deleted, unless the
\* delete raises (the except clause of line 94 leaves the document behind).
OpTestCleanup ==
    /\ opc = "l89"
    /\ \E deleted \in BOOLEAN :
         store' = IF deleted THEN DeleteDocs(store, TestCollection, 1) ELSE store
    /\ opc' = "idle"
    /\ UNCHANGED <<ops, written_to>>
    /\ UNCHANGED notCollections

NextCollections ==
    \/ OpNotConnected
    \/ OpSaveSearchResult
    \/ OpDeleteBatch
    \/ OpCleanup
    \/ OpTestInsert
    \/ OpTestCleanup

\* =====================================================================
\* The comment pages of one video (YouTubeService.get_comments,
\* services/youtube_service.py lines 70-132)
\* =====================================================================

\* response.get('nextPageToken') of a page without the key (line 120)
NoPageToken == "none"

\* The tokens a page can carry: the platform decides them.
PageTokens == {"p1", "p2"}

\* totalReplyCount of one item, as many replies as lines 104-114 append
ReplyCounts == {0, 1}

\* The items of one page, each by the number of its replies; a page that
\* respects maxResults carries at most that many items.
Pages(limit) == UNION {[1..n -> ReplyCounts] : n \in 0..limit}

\* line 86: maxResults=min(100, max_comments - len(comments))
MaxResults(max, collected) == Min(100, max - collected)

PagesStart ==
    /\ ycomments = <<>>
    /\ next_page_token = NoPageToken
    /\ max_results = 0
    /\ ypc = "l81"

\* lines 72-79: max_comments is the argument, or the configured default;
\* comments = [] and next_page_token = None
InitPages ==
    /\ max_comments \in -1..MaxComments
    /\ PagesStart

PagesIdle ==
    /\ max_comments = 0
    /\ PagesStart

\* line 81: while len(comments) < max_comments; lines 83-89 build the request
\* of the next page, line 127 returns the comments when the test fails
GetCommentsLoop ==
    /\ ypc = "l81"
    /\ IF Len(ycomments) < max_comments
       THEN /\ max_results' = MaxResults(max_comments, Len(ycomments))
            /\ ypc' = "l91"
       ELSE /\ ypc' = "done"
            /\ UNCHANGED max_results
    /\ UNCHANGED <<max_comments, ycomments, next_page_token>>
    /\ UNCHANGED notPages

\* lines 91-122: the page arrives, its items are appended, and the loop goes on
\* if the page carries a token
PageArrives ==
    /\ ypc = "l91"
    /\ \E page \in Pages(max_results), token \in PageTokens \cup {NoPageToken} :
         /\ ycomments' = ycomments \o page
         /\ next_page_token' = token
         /\ ypc' = IF token = NoPageToken THEN "done" ELSE "l81"
    /\ UNCHANGED <<max_comments, max_results>>
    /\ UNCHANGED notPages

\* lines 124-126: execute() raises, or an item read by lines 93-118 lacks a
\* key after some items were appended; the loop ends with the comments so far
PageFails ==
    /\ ypc = "l91"
    /\ \E page \in Pages(max_results) :
         /\ Len(page) < max_results
         /\ ycomments' = ycomments \o page
    /\ ypc' = "done"
    /\ UNCHANGED <<max_comments, max_results, next_page_token>>
    /\ UNCHANGED notPages

NextPages ==
    \/ GetCommentsLoop
    \/ PageArrives
    \/ PageFails

InitSpecPages ==
    /\ DbIdle
    /\ FetchIdle
    /\ AggIdle
    /\ UniqueIdle
    /\ SaveIdle
    /\ BootIdle
    /\ AdminIdle
    /\ VaryIdle
    /\ QueryIdle
    /\ NameIdle
    /\ RelIdle
    /\ LegacyIdle
    /\ FilesIdle
    /\ CountsIdle
    /\ ForumsIdle
    /\ RetryIdle
    /\ CollectionsIdle
    /\ InitPages

InitSpecCollections ==
    /\ DbIdle
    /\ FetchIdle
    /\ AggIdle
    /\ UniqueIdle
    /\ SaveIdle
    /\ BootIdle
    /\ AdminIdle
    /\ VaryIdle
    /\ QueryIdle
    /\ NameIdle
    /\ RelIdle
    /\ LegacyIdle
    /\ FilesIdle
    /\ CountsIdle
    /\ ForumsIdle
    /\ RetryIdle
    /\ InitCollections
    /\ PagesIdle

InitSpecRetry ==
    /\ DbIdle
    /\ FetchIdle
    /\ AggIdle
    /\ UniqueIdle
    /\ SaveIdle
    /\ BootIdle
    /\ AdminIdle
    /\ VaryIdle
    /\ QueryIdle
    /\ NameIdle
    /\ RelIdle
    /\ LegacyIdle
    /\ FilesIdle
    /\ CountsIdle
    /\ ForumsIdle
    /\ InitRetry
    /\ CollectionsIdle
    /\ PagesIdle

InitSpecForums ==
    /\ DbIdle
    /\ FetchIdle
    /\ AggIdle
    /\ UniqueIdle
    /\ SaveIdle
    /\ BootIdle
    /\ AdminIdle
    /\ VaryIdle
    /\ QueryIdle
    /\ NameIdle
    /\ RelIdle
    /\ LegacyIdle
    /\ FilesIdle
    /\ CountsIdle
    /\ InitForums
    /\ RetryIdle
    /\ CollectionsIdle
    /\ PagesIdle

InitSpecCounts ==
    /\ DbIdle
    /\ FetchIdle
    /\ AggIdle
    /\ UniqueIdle
    /\ SaveIdle
    /\ BootIdle
    /\ AdminIdle
    /\ VaryIdle
    /\ QueryIdle
    /\ NameIdle
    /\ RelIdle
    /\ LegacyIdle
    /\ FilesIdle
    /\ InitCounts
    /\ ForumsIdle
    /\ RetryIdle
    /\ CollectionsIdle
    /\ PagesIdle

InitSpecFiles ==
    /\ DbIdle
    /\ FetchIdle
    /\ AggIdle
    /\ UniqueIdle
    /\ SaveIdle
    /\ BootIdle
    /\ AdminIdle
    /\ VaryIdle
    /\ QueryIdle
    /\ NameIdle
    /\ RelIdle
    /\ LegacyIdle
    /\ InitFiles
    /\ CountsIdle
    /\ ForumsIdle
    /\ RetryIdle
    /\ CollectionsIdle
    /\ PagesIdle

InitSpecLegacy ==
    /\ DbIdle
    /\ FetchIdle
    /\ AggIdle
    /\ UniqueIdle
    /\ SaveIdle
    /\ BootIdle
    /\ AdminIdle
    /\ VaryIdle
    /\ QueryIdle
    /\ NameIdle
    /\ RelIdle
    /\ InitLegacy
    /\ FilesIdle
    /\ CountsIdle
    /\ ForumsIdle
    /\ RetryIdle
    /\ CollectionsIdle
    /\ PagesIdle

InitSpecRel ==
    /\ DbIdle
    /\ FetchIdle
    /\ AggIdle
    /\ UniqueIdle
    /\ SaveIdle
    /\ BootIdle
    /\ AdminIdle
    /\ VaryIdle
    /\ QueryIdle
    /\ NameIdle
    /\ InitRel
    /\ LegacyIdle
    /\ FilesIdle
    /\ CountsIdle
    /\ ForumsIdle
    /\ RetryIdle
    /\ CollectionsIdle
    /\ PagesIdle

InitSpecName ==
    /\ DbIdle
    /\ FetchIdle
    /\ AggIdle
    /\ UniqueIdle
    /\ SaveIdle
    /\ BootIdle
    /\ AdminIdle
    /\ VaryIdle
    /\ QueryIdle
    /\ InitName
    /\ RelIdle
    /\ LegacyIdle
    /\ FilesIdle
    /\ CountsIdle
    /\ ForumsIdle
    /\ RetryIdle
    /\ CollectionsIdle
    /\ PagesIdle

InitSpecQuery ==
    /\ DbIdle
    /\ FetchIdle
    /\ AggIdle
    /\ UniqueIdle
    /\ SaveIdle
    /\ BootIdle
    /\ AdminIdle
    /\ VaryIdle
    /\ InitQuery
    /\ NameIdle
    /\ RelIdle
    /\ LegacyIdle
    /\ FilesIdle
    /\ CountsIdle
    /\ ForumsIdle
    /\ RetryIdle
    /\ CollectionsIdle
    /\ PagesIdle

InitSpecVary ==
    /\ DbIdle
    /\ FetchIdle
    /\ AggIdle
    /\ UniqueIdle
    /\ SaveIdle
    /\ BootIdle
    /\ AdminIdle
    /\ InitVary
    /\ QueryIdle
    /\ NameIdle
    /\ RelIdle
    /\ LegacyIdle
    /\ FilesIdle
    /\ CountsIdle
    /\ ForumsIdle
    /\ RetryIdle
    /\ CollectionsIdle
    /\ PagesIdle

InitSpecAdmin ==
    /\ DbIdle
    /\ FetchIdle
    /\ AggIdle
    /\ UniqueIdle
    /\ SaveIdle
    /\ BootIdle
    /\ InitAdmin
    /\ VaryIdle
    /\ QueryIdle
    /\ NameIdle
    /\ RelIdle
    /\ LegacyIdle
    /\ FilesIdle
    /\ CountsIdle
    /\ ForumsIdle
    /\ RetryIdle
    /\ CollectionsIdle
    /\ PagesIdle

InitSpecDb ==
    /\ InitDb
    /\ FetchIdle
    /\ AggIdle
    /\ UniqueIdle
    /\ SaveIdle
    /\ BootIdle
    /\ AdminIdle
    /\ VaryIdle
    /\ QueryIdle
    /\ NameIdle
    /\ RelIdle
    /\ LegacyIdle
    /\ FilesIdle
    /\ CountsIdle
    /\ ForumsIdle
    /\ RetryIdle
    /\ CollectionsIdle
    /\ PagesIdle

InitSpecFetch ==
    /\ DbIdle
    /\ InitFetch
    /\ AggIdle
    /\ UniqueIdle
    /\ SaveIdle
    /\ BootIdle
    /\ AdminIdle
    /\ VaryIdle
    /\ QueryIdle
    /\ NameIdle
    /\ RelIdle
    /\ LegacyIdle
    /\ FilesIdle
    /\ CountsIdle
    /\ ForumsIdle
    /\ RetryIdle
    /\ CollectionsIdle
    /\ PagesIdle

InitSpecAgg ==
    /\ DbIdle
    /\ FetchIdle
    /\ InitAgg
    /\ UniqueIdle
    /\ SaveIdle
    /\ BootIdle
    /\ AdminIdle
    /\ VaryIdle
    /\ QueryIdle
    /\ NameIdle
    /\ RelIdle
    /\ LegacyIdle
    /\ FilesIdle
    /\ CountsIdle
    /\ ForumsIdle
    /\ RetryIdle
    /\ CollectionsIdle
    /\ PagesIdle

InitSpecUnique ==
    /\ DbIdle
    /\ FetchIdle
    /\ AggIdle
    /\ InitUnique
    /\ SaveIdle
    /\ BootIdle
    /\ AdminIdle
    /\ VaryIdle
    /\ QueryIdle
    /\ NameIdle
    /\ RelIdle
    /\ LegacyIdle
    /\ FilesIdle
    /\ CountsIdle
    /\ ForumsIdle
    /\ RetryIdle
    /\ CollectionsIdle
    /\ PagesIdle

InitSpecSave ==
    /\ DbIdle
    /\ FetchIdle
    /\ AggIdle
    /\ UniqueIdle
    /\ InitSave
    /\ BootIdle
    /\ AdminIdle
    /\ VaryIdle
    /\ QueryIdle
    /\ NameIdle
    /\ RelIdle
    /\ LegacyIdle
    /\ FilesIdle
    /\ CountsIdle
    /\ ForumsIdle
    /\ RetryIdle
    /\ CollectionsIdle
    /\ PagesIdle

InitSpecBoot ==
    /\ DbIdle
    /\ FetchIdle
    /\ AggIdle
    /\ UniqueIdle
    /\ SaveIdle
    /\ InitBoot
    /\ AdminIdle
    /\ VaryIdle
    /\ QueryIdle
    /\ NameIdle
    /\ RelIdle
    /\ LegacyIdle
    /\ FilesIdle
    /\ CountsIdle
    /\ ForumsIdle
    /\ RetryIdle
    /\ CollectionsIdle
    /\ PagesIdle

SpecDb == InitSpecDb /\ [][NextDb]_vars

SpecDbSeq == InitSpecDb /\ [][NextDbSeq]_vars

SpecFetch == InitSpecFetch /\ [][NextFetch]_vars

SpecAgg == InitSpecAgg /\ [][NextAgg]_vars

SpecUnique == InitSpecUnique /\ [][NextUnique]_vars

SpecSave == InitSpecSave /\ [][NextSave]_vars

SpecBoot == InitSpecBoot /\ [][NextBoot]_vars

SpecAdmin == InitSpecAdmin /\ [][NextAdmin]_vars

SpecVary == InitSpecVary /\ [][NextVary]_vars

SpecQuery == InitSpecQuery /\ [][NextQuery]_vars

SpecName == InitSpecName /\ [][NextName]_vars

SpecRel == InitSpecRel /\ [][NextRel]_vars

SpecLegacy == InitSpecLegacy /\ [][NextLegacy]_vars

SpecFiles == InitSpecFiles /\ [][NextFiles]_vars

SpecCounts == InitSpecCounts /\ [][NextCounts]_vars

SpecForums == InitSpecForums /\ [][NextForums]_vars

SpecRetry == InitSpecRetry /\ [][NextRetry]_vars

SpecCollections == InitSpecCollections /\ [][NextCollections]_vars

SpecPages == InitSpecPages /\ [][NextPages]_vars

\* get_comments runs on the thread of its caller, which executes its next
\* line whenever it has one, and execute() returns or raises (the HTTP client
\* has a timeout): a step of the loop that can be taken is taken.
SpecPagesFair == SpecPages /\ WF_vars(NextPages)

\* ---------------------------------------------------------------------
\* Claims about DatabaseService
\* ---------------------------------------------------------------------

\* C1: when a connect() call returns False, the service is Disconnected: no
\* client handle is retained, so the next connect() makes a fresh attempt.
\* (Calls made one after the other.)
C1_FailedConnectStaysDisconnected ==
    (AllIdle /\ last[2] = "connect" /\ last[3] = "False") => client = None

\* C2: once a connect() returned True, every connect() up to the next
\* close_connection() returns True at once, creating and probing nothing;
\* close_connection() leaves no client and no database handle, and the connect()
\* after it goes on to a connection attempt. (Calls made one after the other.)
C2_ConnectedIsNoOpUntilClose ==
    [][\A t \in Threads :
         /\ (connected /\ pc[t] = "l21" /\ pc'[t] # "l21")
              => /\ pc'[t] = "idle"
                 /\ ret'[t] = "True"
                 /\ last'[4] = 65
                 /\ UNCHANGED <<client, db, nCreated>>
         /\ (pc[t] \in {"l233", "l236"} /\ pc'[t] = "idle")
              => (client' = None /\ db' = None /\ ~connected')
         /\ (last[2] = "close" /\ pc[t] = "l21" /\ pc'[t] # "l21")
              => pc'[t] = "l27"
      ]_vars

\* A connect() was a no-op on the second client: the first was closed, a new
\* attempt made the second, and the last connect() returned from line 65.
C2_Witness ==
    /\ AllIdle
    /\ closeCalled
    /\ connected
    /\ nCreated = 2
    /\ client = 2
    /\ last[2] = "connect" /\ last[3] = "True" /\ last[4] = 65

\* C3: with request threads calling connect() concurrently and nobody closing,
\* at most one client handle is ever created (none is created twice, none is
\* overwritten).
C3_OneClientHandle ==
    ~closeCalled => nCreated <= 1

\* ---------------------------------------------------------------------
\* Claims about fetch_all_comments_parallel
\* ---------------------------------------------------------------------

\* The orchestrator is inside an attempt: its tasks are submitted, its results
\* not yet added to the totals.
InAttempt == fpc \in {"l119", "l129", "l137", "l139"}

\* C4: with max_retries >= 1 and min_total_comments > 0 the call makes between 1
\* and max_retries attempts and then returns; an attempt after the first starts
\* only while the running total is below the target; and a pause is always
\* followed by another attempt (there are attempts - 1 pauses, none after the last).
C4_BoundedAttempts ==
    (fMax >= 1 /\ fMin > 0) =>
        /\ attemptsRun <= fMax
        /\ InAttempt => (attemptsRun = attempt /\ total_comments + total_replies < fMin)
        /\ fpc = "done" => (attemptsRun >= 1 /\ nPauses = attemptsRun - 1)
        /\ nPauses <= attemptsRun
        /\ attemptsRun >= 1 => nPauses >= attemptsRun - 1
        /\ (attemptsRun >= 1 /\ nPauses = attemptsRun)
             => (fpc = "l113" \/ (fpc = "l43" /\ LoopCondition))
        /\ fpc # "done" => ENABLED NextFetch

\* Both attempts were used and the target was missed: one pause, between them.
C4_Witness ==
    /\ fpc = "done"
    /\ fMax = 2 /\ fMin > 0
    /\ attemptsRun = 2
    /\ nPauses = 1
    /\ total_comments + total_replies < fMin

\* C5: the returned attempts_made is the number of attempts that were run.
C5_AttemptsMadeIsAttemptsRun ==
    (fpc = "done" /\ fret.returned) => fret.attempts_made = attemptsRun

\* C6: a source whose task ran longer than FETCH_TIMEOUT from its start is
\* recorded as an error and its result is not merged.
C6_TimeoutFromTaskStart ==
    fpc = "l139" =>
        \A s \in Sources :
            task[s].dur > FETCH_TIMEOUT => (errors[s] # "none" /\ ~Present(s))

\* C7: after a source timed out, the orchestrator merges without waiting for the
\* abandoned call: it is at the merge when the second result() call returned.
C7_TimedOutCallIsAbandoned ==
    fpc = "l139" =>
        ((\E s \in Sources : errors[s] = "timeout") => now = collectedAt)

\* In this attempt source f failed and source g succeeded.
OneFailed(f, g) == f # g /\ errors[f] # "none" /\ Present(g)

\* The tags the current attempt appended to sources_used.
AttemptSources == SubSeq(sources_used, srcBefore + 1, Len(sources_used))

SeqRange(q) == {q[i] : i \in 1..Len(q)}

\* The attempt's items are the succeeding source's, were appended to all_videos,
\* and errors names the failing source only.
PartialMerge(f, g) ==
    /\ attempt_videos = task[g].out.videos
    /\ SubSeq(all_videos, Len(all_videos) - Len(attempt_videos) + 1, Len(all_videos))
         = attempt_videos
    /\ {s \in Sources : errors[s] # "none"} = {f}

\* C8 (as claimed): in an attempt where one source fails and the other succeeds,
\* the merged items are the succeeding source's, errors names the failing source
\* only, and sources holds the succeeding source's tag only.
C8_PartialSourceOriginal ==
    fpc = "l169" =>
        \A f, g \in Sources :
            OneFailed(f, g) => (PartialMerge(f, g) /\ SeqRange(sources_used) = {g})

\* C8 (amended): ... and the attempt appends the succeeding source's tag only to
\* sources, which keeps the tags of earlier attempts.
C8_PartialSourceResilience ==
    fpc = "l169" =>
        \A f, g \in Sources :
            OneFailed(f, g) => (PartialMerge(f, g) /\ AttemptSources = <<g>>)

\* The second attempt: youtube timed out, reddit delivered items; youtube had
\* succeeded in the first attempt.
C8_Witness ==
    /\ fpc = "l169"
    /\ attemptsRun = 2
    /\ errors["youtube"] = "timeout"
    /\ Present("reddit")
    /\ attempt_videos # <<>>
    /\ sources_used = <<"youtube", "reddit">>

\* ---------------------------------------------------------------------
\* Claims about fetch_multiple_queries_aggregated
\* ---------------------------------------------------------------------

\* The fetches made so far are those of the first queries, in the order supplied.
FetchedInOrder ==
    /\ Len(fetched) <= Len(queries)
    /\ \A k \in 1..Len(fetched) : fetched[k].query = queries[k]

\* When the target was never reached, every query was fetched.
AllFetchedUnlessReached ==
    (apc = "done" /\ Len(all_unique_comments) < target) => Len(fetched) = Len(queries)

\* C9 (as claimed): the queries are fetched in the order supplied, one at a time;
\* no query is fetched once the global unique count has reached the target after
\* an earlier query; if the target is never reached every query is fetched once.
C9_StopsWhenTargetReachedOriginal ==
    /\ FetchedInOrder
    /\ (apc = "l223" /\ qi >= 2) => Len(all_unique_comments) < target
    /\ AllFetchedUnlessReached

\* C9 (amended): ... no query is fetched once a query that produced content items
\* has left the global unique count at or above the target (so, for a target of 1
\* or more, once the count has reached the target after any query) ...
C9_StopsWhenTargetReached ==
    /\ FetchedInOrder
    /\ (apc = "l223" /\ successful_queries >= 1) => Len(all_unique_comments) < target
    /\ (apc = "l223" /\ qi >= 2 /\ target >= 1) => Len(all_unique_comments) < target
    /\ AllFetchedUnlessReached

\* Three queries, each adding one new unique comment, with a target of three:
\* the run ends after the third with 3 successful and 0 failed queries.
C9_Witness ==
    /\ apc = "done"
    /\ Len(queries) = 3
    /\ target = 3
    /\ Len(fetched) = 3
    /\ aret.unique_count = 3
    /\ aret.successful_queries = 3
    /\ aret.failed_queries = 0

\* C10: a query whose fetch raised or gave no items gets exactly one outcome
\* entry (error or failed), changes neither the global map, the content list nor
\* the processed totals, and the loop goes on; the run ends before the last query
\* only after a success; at return successful + failed is the number of outcome
\* entries, which are in query order.
C10_QueryFailureNeverAborts ==
    [][/\ (apc = "l229" /\ (query_result.raised \/ query_result.videos = <<>>))
            => /\ Len(query_results') = Len(query_results) + 1
               /\ SubSeq(query_results', 1, Len(query_results)) = query_results
               /\ query_results'[Len(query_results')].query = queries[qi]
               /\ query_results'[Len(query_results')].status
                    = (IF query_result.raised THEN "error" ELSE "failed")
               /\ failed_queries' = failed_queries + 1
               /\ UNCHANGED <<all_unique_comments, all_videos_data,
                              total_processed_comments, total_processed_replies,
                              successful_queries>>
               /\ apc' = "l292"
       /\ (apc = "l292" /\ qi < Len(queries)) => (apc' = "l215" /\ qi' = qi)
       /\ (apc' = "l297" /\ qi' < Len(queries))
            => query_results'[Len(query_results')].status = "success"
       /\ apc' = "done"
            => /\ aret'.successful_queries + aret'.failed_queries
                    = Len(aret'.query_results)
               /\ \A k \in 1..Len(aret'.query_results) :
                      aret'.query_results[k].query = queries[k]
      ]_vars

\* A run of three queries: the first fetch raised, the second gave no items,
\* the third succeeded.
C10_Witness ==
    /\ apc = "done"
    /\ Len(aret.query_results) = 3
    /\ aret.query_results[1].status = "error"
    /\ aret.query_results[2].status = "failed"
    /\ aret.query_results[3].status = "success"
    /\ aret.failed_queries = 2

\* ---------------------------------------------------------------------
\* Claims about get_unique_comments_unified and the global map
\* ---------------------------------------------------------------------

\* A text without its leading and trailing whitespace: what lies between its
\* first and its last character that is not whitespace.
Trimmed(t) ==
    LET inked == {i \in 1..Len(t) : t[i] # " "}
    IN  IF inked = {} THEN <<>>
        ELSE SubSeq(t, CHOOSE i \in inked : \A j \in inked : i <= j,
                       CHOOSE i \in inked : \A j \in inked : i >= j)

\* No two entries of a list of comments or replies have the same trimmed text.
DistinctTexts(entries) ==
    \A i, j \in 1..Len(entries) :
        i # j => Trimmed(entries[i].text) # Trimmed(entries[j].text)

\* C11: at every point of get_unique_comments_unified no two unique comments
\* have the same trimmed text, and no two replies stored under one unique
\* comment have the same trimmed text.
C11_DeduplicationInvariant ==
    /\ DistinctTexts(unique_comments)
    /\ \A k \in 1..Len(unique_comments) : DistinctTexts(unique_comments[k].replies)

\* Every reply of every occurrence of an entry's text among the content items
\* that passes the reply filter is stored, trimmed, under the entry.
RepliesCovered(entries, videos) ==
    \A k \in 1..Len(entries) : \A i \in 1..Len(videos) :
        \A j \in 1..Len(videos[i].comments) :
            LET comment == videos[i].comments[j] IN
            Trimmed(comment.text) = entries[k].text =>
                \A r \in 1..Len(comment.replies) :
                    Len(Trimmed(comment.replies[r].text)) > 3 =>
                        \E n \in 1..Len(entries[k].replies) :
                            entries[k].replies[n].text = Trimmed(comment.replies[r].text)

\* C12: a later occurrence of a stored comment text, in a later content item or
\* a later query of the run, contributes its replies: every reply of every
\* occurrence that passes the reply filter is stored under the unique comment
\* of the global map.
C12_DuplicatesContributeReplies ==
    RepliesCovered(all_unique_comments, all_videos_data)

\* The fields of a unique comment other than its replies.
EntryFields(e) ==
    <<e.author, e.text, e.likes, e.published_at, e.source, e.video_title, e.subreddit>>

\* The title and the forum of a content item.
ItemTitle(v) == IF v.source = "youtube" THEN v.video_info.title ELSE v.post_info.title
ItemForum(v) == IF v.source = "youtube" THEN "" ELSE v.post_info.subreddit

\* The positions <<item, comment>> at which a text occurs among content items.
Occurrences(videos, text) ==
    UNION { { <<i, j>> : j \in {n \in 1..Len(videos[i].comments) :
                                   Trimmed(videos[i].comments[n].text) = text} } :
            i \in 1..Len(videos) }

\* Every entry carries the fields of the first occurrence of its text.
FirstWins(entries, videos) ==
    \A k \in 1..Len(entries) :
        LET occ == Occurrences(videos, entries[k].text)
            first == CHOOSE o \in occ :
                         \A p \in occ : o[1] < p[1] \/ (o[1] = p[1] /\ o[2] <= p[2])
            item == videos[first[1]]
            comment == item.comments[first[2]]
        IN  /\ occ # {}
            /\ EntryFields(entries[k])
                 = <<comment.author, Trimmed(comment.text), comment.likes,
                     comment.published_at, item.source, ItemTitle(item), ItemForum(item)>>

\* C13: first occurrence wins: a step of the aggregation leaves the author,
\* text, score, timestamp, source, title and forum of every stored unique
\* comment unchanged, and every stored unique comment carries those of the
\* first occurrence of its text among the content items of the run (of the same
\* query or of an earlier one).
C13_FirstOccurrenceWins ==
    [][/\ \A k \in 1..Len(all_unique_comments) :
            /\ k <= Len(all_unique_comments')
            /\ EntryFields(all_unique_comments'[k]) = EntryFields(all_unique_comments[k])
       /\ FirstWins(all_unique_comments', all_videos_data')
      ]_vars

\* The run met the text "abab" by u1 in its first query and "abab " by u2 in its
\* second: the entry stored is u1's.
C13_Witness ==
    /\ apc = "done"
    /\ Len(aret.query_results) >= 2
    /\ \E k \in 1..Len(aret.unique_comments) :
           /\ aret.unique_comments[k].text = tGood
           /\ aret.unique_comments[k].author = "u1"
           /\ aret.unique_comments[k].video_title = "v1"
    /\ \E o \in Occurrences(all_videos_data, tGood) :
           /\ all_videos_data[o[1]].comments[o[2]].author = "u2"
           /\ all_videos_data[o[1]].video_info.title = "v2"

\* The comments of a list of content items.
CommentsOf(videos) ==
    UNION { {videos[i].comments[j] : j \in 1..Len(videos[i].comments)} :
            i \in 1..Len(videos) }

\* The distinct trimmed texts of at least 3 characters among them.
KeptTexts(videos) ==
    {t \in {Trimmed(c.text) : c \in CommentsOf(videos)} : Len(t) >= 3}

\* C14: get_unique_comments_unified returns one entry per distinct trimmed text
\* of 3 or more characters: two retained comments are represented by the same
\* entry exactly when their texts are equal after trimming (case matters), and
\* the returned count is the number of those distinct texts.
C14_ExactTextDedup ==
    upc = "done" =>
        LET entries == uret.unique_comments
            kept == {c \in CommentsOf(videos_data) : Len(Trimmed(c.text)) >= 3}
        IN  /\ uret.total_comments = Cardinality(KeptTexts(videos_data))
            /\ Len(entries) = uret.total_comments
            /\ \A c \in kept : \E k \in 1..Len(entries) : entries[k].text = Trimmed(c.text)
            /\ \A c1, c2 \in kept :
                   (\E k \in 1..Len(entries) : /\ entries[k].text = Trimmed(c1.text)
                                               /\ entries[k].text = Trimmed(c2.text))
                       <=> Trimmed(c1.text) = Trimmed(c2.text)

\* "abab", "Abab" and "abab " were passed: two entries, "abab" and "Abab".
C14_Witness ==
    /\ upc = "done"
    /\ {tGood, tUpper, tGoodSp} \subseteq {c.text : c \in CommentsOf(videos_data)}
    /\ uret.total_comments = 2
    /\ {uret.unique_comments[k].text : k \in 1..Len(uret.unique_comments)} = {tGood, tUpper}

\* C15: a comment whose trimmed text has fewer than 3 characters changes
\* neither the unique set nor the counts, and its replies are not considered; a
\* comment whose trimmed text has exactly 3 characters is in the unique set
\* afterwards, counted when it is new; no entry is ever shorter than 3.
C15_ShortCommentDiscard ==
    [][/\ (upc = "l335" /\ cidx < Len(videos_data[vidx].comments)) =>
            LET t == Trimmed(videos_data[vidx].comments[cidx + 1].text) IN
            /\ Len(t) < 3 => UNCHANGED <<unique_comments, unique_total, replies_total>>
            /\ Len(t) = 3 =>
                  /\ \E k \in 1..Len(unique_comments') : unique_comments'[k].text = t
                  /\ (\A k \in 1..Len(unique_comments) : unique_comments[k].text # t)
                        => unique_total' = unique_total + 1
       /\ \A k \in 1..Len(unique_comments') : Len(unique_comments'[k].text) >= 3
       /\ unique_total' = Len(unique_comments')
      ]_vars

\* "ab" (with a reply "abab") and "aba" were passed: one entry, "aba", and no reply.
C15_Witness ==
    /\ upc = "done"
    /\ \E c \in CommentsOf(videos_data) : c.text = tNo /\ c.replies # <<>>
    /\ \E c \in CommentsOf(videos_data) : c.text = tWow
    /\ uret.total_comments = 1
    /\ uret.unique_comments[1].text = tWow
    /\ uret.total_replies = 0

\* ---------------------------------------------------------------------
\* Claims about the persistence of a search and its retrieval
\* ---------------------------------------------------------------------

\* save_unified_data has returned.
Saved == spc \in {"l97", "responded", "done"} /\ has_videos

\* The documents this search inserted.
OwnDocuments == Matching(search_results, FreshBatch)

\* C16: save_unified_data calls save_search_result, the write of the videos
\* file and the write of the history file once each, whatever the outcome of the
\* others, and returns a result that is not absent: 'files_only' exactly when
\* the database write gave no identifier.
C16_IndependentSinks ==
    /\ calls.save_search_result <= 1 /\ calls.videos <= 1 /\ calls.history <= 1
    /\ Saved =>
          /\ calls.save_search_result = 1
          /\ calls.videos = 1
          /\ calls.history = 1
          /\ videos_filename \in {"path", "None"}
          /\ history_filename \in {"path", "None"}
          /\ save_result.kind \in {"mongodb", "files_only"}
          /\ save_result.kind = "files_only" <=> OwnDocuments = {}

\* The database was unreachable and the videos file could not be written: the
\* history file was written all the same and the call returned 'files_only'.
C16_Witness ==
    /\ Saved
    /\ calls.insert_one = 0
    /\ mongo_result = None
    /\ videos_filename = "None"
    /\ history_filename = "path"
    /\ save_result = SaveResult(None)

\* C17: a search whose fetch produced a content item is answered 200 with its
\* batch id whatever the database write and the file writes did; saved_to is
\* the database identifier when the database write succeeded and 'files_only'
\* when it did not.
C17_PersistenceNeverChangesStatus ==
    (spc \in {"responded", "done"} /\ has_videos) =>
        /\ response.status = 200
        /\ response.batch_id = FreshBatch
        /\ IF OwnDocuments = {}
           THEN response.saved_to = [kind |-> "files_only", id |-> None]
           ELSE /\ response.saved_to.kind = "mongodb"
                /\ response.saved_to.id \in {search_results[k].id : k \in OwnDocuments}

\* POST /api/search/simple answered 200 with 'files_only' after the insert was
\* rejected and neither file could be written.
C17_Witness ==
    /\ spc = "responded"
    /\ endpoint = "simple"
    /\ calls.insert_one = 1
    /\ exc.raised
    /\ videos_filename = "None"
    /\ history_filename = "None"
    /\ response.status = 200
    /\ response.saved_to.kind = "files_only"

\* C18: when the search answered 200 with a batch id, a later GET of that batch
\* id with the database reachable returns the document of that search (same
\* batch id and query), not 404.
C18_BatchIdRetrievable ==
    (/\ spc = "done"
     /\ response.status = 200
     /\ response.batch_id # Null
     /\ get_request.batch_id = response.batch_id
     /\ get_request.connect = "connected")
        => /\ get_response.status = 200
           /\ get_response.batch_id = response.batch_id
           /\ get_response.query = OriginalQuery

\* save_search_result has returned.
DatabaseReturned == spc \in {"l419", "l431", "l448", "l97", "responded", "done"}

\* C19: when the primary insert was rejected because the document is over the
\* size limit, save_search_result inserts the minimal-metadata document and
\* returns the identifier of that insert; it returns None only if the fallback
\* insert failed too.
C19_OversizedFallback ==
    (DatabaseReturned /\ exc.raised /\ exc.oversize) =>
        /\ calls.insert_one = 2
        /\ \A k \in OwnDocuments : search_results[k].minimal /\ mongo_result = search_results[k].id
        /\ mongo_result = None <=> OwnDocuments = {}

\* ---------------------------------------------------------------------
\* Claims about startup
\* ---------------------------------------------------------------------

\* C20: startup ends with the server serving exactly when YOUTUBE_API_KEY is
\* set: missing or incomplete Reddit credentials (or a missing MONGODB_URI) do
\* not stop it, a missing YOUTUBE_API_KEY does.
C20_OptionalCredentialsDoNotStopStartup ==
    bpc = "end" => (process = "serving" <=> environ["YOUTUBE_API_KEY"])

\* ---------------------------------------------------------------------
\* Claims about the database handle and the legacy helper
\* ---------------------------------------------------------------------

\* C29: whenever a connect() call has returned True, self.db is set, so the
\* operation that follows (self.db['search_results'], get_database) has a handle
\* to work on. (Already for calls made one after the other.)
C29_ConnectSuccessMeansHandle ==
    (AllIdle /\ last[2] = "connect" /\ last[3] = "True") => db # None

\* C30: at every call, get_mongo_client and connect() meeting the same outcome
\* of the database report connected or not alike, and either both construct a
\* client or neither does.
C30_LegacyEquivalent ==
    /\ compared.legacy_connected = compared.modular_connected
    /\ compared.legacy_attempt = compared.modular_attempt

\* ---------------------------------------------------------------------
\* Claims about the search_results collection
\* ---------------------------------------------------------------------

DocSet(docs) == {docs[i] : i \in 1..Len(docs)}

\* C21: after a cleanup answered with 200 on n documents with keep_latest = k:
\* if n > k exactly n - k documents are gone, k remain and none of the deleted
\* is newer than a remaining one; if n <= k none is gone; deleted_count and
\* remaining_records are the numbers of documents gone and left.
C21_CleanupKeepsNewest ==
    cleanup_response.status = 200 =>
        LET n == Len(before)
            k == keep_latest
            remaining == DocSet(records)
            deleted == DocSet(before) \ remaining
        IN /\ n > k => /\ Cardinality(deleted) = n - k
                       /\ Cardinality(remaining) = k
                       /\ \A d \in deleted, r \in remaining : d.timestamp <= r.timestamp
                       /\ cleanup_response.remaining_records = Cardinality(remaining)
           /\ n <= k => deleted = {}
           /\ cleanup_response.deleted_count = Cardinality(deleted)

\* C28: the list_search_results calls made since the last write to the collection
\* all returned the same list in the same order.
C28_RelistingIsIdempotent ==
    \A i, j \in 1..Len(listed) : listed[i] = listed[j]

\* ---------------------------------------------------------------------
\* Claims about the query variations
\* ---------------------------------------------------------------------

\* C22: generate_query_variations returns at least one query, and exactly the
\* list of the original query when the AI service is unavailable, when the
\* generation raises or when no variation is parsed from the response.
C22_VariationsNeverEmpty ==
    vpc # "l36" =>
        /\ Len(query_variations) >= 1
        /\ (\/ ~ai_available
            \/ ai_response.raises
            \/ ParseVariations(ai_response.lines) = <<>>) => query_variations = <<tQuery>>

\* ---------------------------------------------------------------------
\* Claims about the retry escalation
\* ---------------------------------------------------------------------

\* C23: the tasks of the k-th attempt (the k-th pair submitted) ask the video
\* platform for 20 + 10*(k-1) videos with 150 + 30*(k-1) comments each and the
\* discussion platform for 3000 + 1000*(k-1) comments; attempt changes only when
\* both tasks of the attempt have finished, so no task reads a later attempt's
\* number.
C23_RetryEscalation ==
    [][/\ attemptsRun' = attemptsRun + 1 =>
            LET k == attemptsRun' IN
            /\ task'["youtube"].asked.max_videos = 20 + 10 * (k - 1)
            /\ task'["youtube"].asked.max_comments_per_video = 150 + 30 * (k - 1)
            /\ task'["reddit"].asked.limit = 3000 + 1000 * (k - 1)
       /\ attempt' # attempt =>
            /\ attempt = attemptsRun
            /\ \A s \in Sources : task[s].dur <= now
      ]_vars

\* The third attempt issued its fetches: 40 videos, 210 comments a video, 5000.
C23_Witness ==
    /\ attemptsRun = 3
    /\ fpc = "l119"
    /\ task["youtube"].asked = [max_videos |-> 40, max_comments_per_video |-> 210]
    /\ task["reddit"].asked = [limit |-> 5000]

\* ---------------------------------------------------------------------
\* Claims about validate_query
\* ---------------------------------------------------------------------

\* The runs of q that are not spaces, and the length of q without its leading
\* and trailing spaces.
Inked(q) == {i \in 1..Len(q) : q[i].ch # " "}

TrimmedLength(q) ==
    IF Inked(q) = {} THEN 0
    ELSE LET lo == CHOOSE i \in Inked(q) : \A j \in Inked(q) : i <= j
             hi == CHOOSE i \in Inked(q) : \A j \in Inked(q) : i >= j
         IN RunsLen(SubSeq(q, lo, hi))

\* C25: validate_query answers, in this order: empty for a blank query, too
\* short for a trimmed length below 2, too long for one above 500, invalid
\* characters for a query holding one of < > " ' &, and valid otherwise; so it
\* answers valid exactly when the trimmed length is within 2..500 and none of
\* the five characters occurs.
C25_ValidateQuery ==
    validation # NoValidation =>
        LET n == TrimmedLength(vquery)
            bad == \E i \in 1..Len(vquery) : vquery[i].ch \in {"<", ">", "\"", "'", "&"}
        IN /\ validation =
                 IF n = 0 THEN [ok |-> FALSE, message |-> "Query cannot be empty"]
                 ELSE IF n < 2
                 THEN [ok |-> FALSE, message |-> "Query must be at least 2 characters long"]
                 ELSE IF n > 500
                 THEN [ok |-> FALSE, message |-> "Query must be less than 500 characters"]
                 ELSE IF bad
                 THEN [ok |-> FALSE, message |-> "Query contains invalid characters"]
                 ELSE [ok |-> TRUE, message |-> "Query is valid"]
           /\ validation.ok <=> (n >= 2 /\ n <= 500 /\ ~bad)

\* A query of 500 characters between two spaces was found valid.
C25_Witness ==
    /\ validation = [ok |-> TRUE, message |-> "Query is valid"]
    /\ TrimmedLength(vquery) = 500
    /\ vquery[1].ch = " "
    /\ RunsLen(vquery) > 500

\* ---------------------------------------------------------------------
\* Claims about file names
\* ---------------------------------------------------------------------

\* The characters of [a-z0-9_-]
SafeChars ==
    {"a", "b", "c", "d", "e", "f", "g", "h", "i", "j", "k", "l", "m", "n", "o", "p", "q",
     "r", "s", "t", "u", "v", "w", "x", "y", "z", "0", "1", "2", "3", "4", "5", "6", "7",
     "8", "9", "_", "-"}

\* C26: what sanitize_filename returns is non-empty, holds only characters of
\* [a-z0-9_-], neither begins nor ends with an underscore, and sanitizing it
\* again returns it unchanged.
C26_SanitizeSafeIdempotent ==
    /\ \A k \in 1..Len(sanitized) :
          LET out == sanitized[k] IN
          /\ out # <<>>
          /\ \A i \in 1..Len(out) : out[i].ch \in SafeChars
          /\ out[1].ch # "_"
          /\ out[Len(out)].ch # "_"
    /\ Len(sanitized) = 2 => Canon(sanitized[2]) = Canon(sanitized[1])

Begun == {c \in Savers : savers[c].pc # "l376"}

Occurs(term, text) ==
    \E i \in 0..(Len(text) - Len(term)) :
        \A j \in 1..Len(term) :
            (IF text[i + j] = "B" THEN "b" ELSE text[i + j]) = term[j]

MatchCount == Cardinality({t \in query_terms : Occurs(t, reddit_body)})

RECURSIVE SumCommentCount(_)
SumCommentCount(videos) ==
    IF videos = <<>> THEN 0
    ELSE Head(videos).comment_count + SumCommentCount(Tail(videos))

\* The sum of the reply-list lengths of all comments of some content items.
ReplyListLengths(videos) ==
    LET RECURSIVE Sum(_, _, _)
        Sum(v, c, acc) ==
            IF v > Len(videos) THEN acc
            ELSE IF c > Len(videos[v].comments) THEN Sum(v + 1, 1, acc)
            ELSE Sum(v, c + 1, acc + Len(videos[v].comments[c].replies))
    IN Sum(1, 1, 0)

IsPrefix(s, t) == Len(s) <= Len(t) /\ SubSeq(t, 1, Len(s)) = s

TotalsConsistent ==
    /\ total_comments = SumCommentCount(all_videos)
    /\ \A i \in 1..Len(all_videos) :
          all_videos[i].comment_count = Len(all_videos[i].comments)
    /\ total_replies = ReplyListLengths(all_videos)
    /\ fret.returned =>
          /\ fret.videos = all_videos
          /\ fret.total_comments = total_comments
          /\ fret.total_replies = total_replies
          /\ fret.target_achieved <=> (total_comments + total_replies >= fMin)

NeverDecreases ==
    /\ IsPrefix(all_videos, all_videos')
    /\ total_comments' >= total_comments
    /\ total_replies' >= total_replies

\* C35: at every step total_comments is the sum of comment_count over the
\* accumulated content items, each comment_count is the number of comments of
\* its item, total_replies is the sum of the reply-list lengths of all their
\* comments, no step removes an accumulated item or decreases a total, and the
\* returned target_achieved is true exactly when total_comments + total_replies
\* is at least min_total_comments.
C35_RunningTotals == []TotalsConsistent /\ [][NeverDecreases]_vars

\* Two attempts ran, each added items, replies were counted and the call
\* returned.
C35_Witness ==
    /\ fpc = "done" /\ fret.returned
    /\ attemptsRun = 2
    /\ attempt_videos # <<>>
    /\ Len(all_videos) > Len(attempt_videos)
    /\ total_replies > 0
    /\ \E i \in 1..Len(all_videos) : all_videos[i].source = "reddit"

\* C36: the returned sources hold each source tag at most once, and the tag of
\* every source that contributed an item.
C36_SourcesIsASet ==
    (fpc = "done" /\ fret.returned) =>
        /\ \A i, j \in 1..Len(fret.sources) :
              i # j => fret.sources[i] # fret.sources[j]
        /\ \A k \in 1..Len(all_videos) :
              \E i \in 1..Len(fret.sources) : fret.sources[i] = all_videos[k].source

\* C37: a call whose loop body never ran returns a dict with no content items,
\* zero totals, zero attempts and no errors, and simple_search answers 404.
C37_EmptyLoopWellFormed ==
    (fpc = "done" /\ attemptsRun = 0) =>
        /\ fret.returned
        /\ fret.videos = <<>>
        /\ fret.total_comments = 0 /\ fret.total_replies = 0
        /\ fret.attempts_made = 0
        /\ \A s \in Sources : fret.errors[s] = "none"
        /\ SimpleSearchStatus(fret) = 404

\* ---------------------------------------------------------------------
\* Claims about the counts of the saved document and of the response
\* ---------------------------------------------------------------------

\* C38: the document save_unified_data built has grand_total = total_comments +
\* total_replies, its total_comments, total_replies and grand_total are those of
\* the response of the same search, and its duplicates_removed is its
\* total_comments minus the unique count.
C38_CountsConsistent ==
    (cpc = "responded" /\ response_status = 200) =>
        /\ document_counts.grand_total =
               document_counts.total_comments + document_counts.total_replies
        /\ document_counts.duplicates_removed =
               document_counts.total_comments - document_counts.unique_comments
        /\ document_counts.total_comments = response_counts.total_comments
        /\ document_counts.total_replies = response_counts.total_replies
        /\ document_counts.grand_total = response_counts.grand_total

\* ---------------------------------------------------------------------
\* Claims about the order of the content items given to the deduplication
\* ---------------------------------------------------------------------

\* The same content items in every order.
Reorderings(items) ==
    LET n == Len(items)
        Orders == {f \in [1..n -> 1..n] : \A i, j \in 1..n : i # j => f[i] # f[j]}
    IN  {[i \in 1..n |-> items[f[i]]] : f \in Orders}

TextsOf(entries) == {entries[k].text : k \in 1..Len(entries)}

\* The stored replies of the unique comment of some text.
StoredReplies(entries, text) ==
    (CHOOSE e \in {entries[k] : k \in 1..Len(entries)} : e.text = text).replies

\* C39: the unique comment texts, their number, and for each unique comment the
\* set and the number of its stored replies (hence the returned reply count)
\* are the same for the same content items given in any other order.
C39_OrderIndependentCounts ==
    uret.returned =>
        \A other \in Reorderings(videos_data) :
            LET o == GetUniqueCommentsUnified(other) IN
            /\ TextsOf(o.unique) = TextsOf(uret.unique_comments)
            /\ o.total_comments = uret.total_comments
            /\ \A t \in TextsOf(o.unique) :
                  /\ TextsOf(StoredReplies(o.unique, t))
                        = TextsOf(StoredReplies(uret.unique_comments, t))
                  /\ Len(StoredReplies(o.unique, t))
                        = Len(StoredReplies(uret.unique_comments, t))
            /\ o.total_replies = uret.total_replies

\* ---------------------------------------------------------------------
\* Claims about the forums of the discussion platform
\* ---------------------------------------------------------------------

\* The lists of the tasks that did not raise, one after the other in some order
\* of the tasks.
RECURSIVE ConcatOutcomes(_)
ConcatOutcomes(order) ==
    IF order = <<>> THEN <<>>
    ELSE (IF futures[Head(order)].outcome.raised THEN <<>>
          ELSE futures[Head(order)].outcome.comments)
         \o ConcatOutcomes(Tail(order))

Submitted == 1..Len(subreddits)

BoundedWorkers ==
    Cardinality(Running) <= (IF Len(subreddits) < MAX_WORKERS THEN Len(subreddits)
                             ELSE MAX_WORKERS)

\* Every submitted task ran to its end, whatever the others did.
AllTasksFinished == \A i \in Submitted : futures[i].state = "finished"

\* C31 as stated: at most min(forumCount, maxWorkers) tasks run at a time, every
\* task runs to its end, and the returned list is the concatenation, in
\* completion order, of the lists of the tasks that did not raise.
C31_FanOutCompletionOrder ==
    /\ BoundedWorkers
    /\ (parallel_ret.returned /\ subreddits # <<>>) =>
          /\ AllTasksFinished
          /\ parallel_ret.comments = ConcatOutcomes(completion)

\* C31, amended: at most min(forumCount, maxWorkers) tasks run at a time, every
\* task runs to its end, each is collected once, and the returned list is the
\* concatenation of the lists of the tasks that did not raise, in the order the
\* tasks were collected: the tasks that had finished before the collection
\* began come first, in any order, and the others follow in completion order.
C31_FanOut ==
    /\ BoundedWorkers
    /\ (parallel_ret.returned /\ subreddits # <<>>) =>
          LET n == Len(subreddits) IN
          /\ AllTasksFinished
          /\ Len(yielded) = n
          /\ {yielded[k] : k \in 1..n} = Submitted
          /\ parallel_ret.comments = ConcatOutcomes(yielded)
          /\ \E k \in 0..n :
                /\ {yielded[j] : j \in 1..k} = {completion[j] : j \in 1..k}
                /\ SubSeq(yielded, k + 1, n) = SubSeq(completion, k + 1, n)

\* Three forums were fetched by two workers: one task raised, others returned
\* comments, and the tasks were not collected in the order they finished.
C31_Witness ==
    /\ parallel_ret.returned
    /\ Len(subreddits) = 3
    /\ \E i \in Submitted : futures[i].outcome.raised
    /\ \E i, j \in Submitted :
          /\ i # j
          /\ futures[i].outcome.comments # <<>>
          /\ Len(futures[j].outcome.comments) = 2
    /\ yielded # completion

\* C32: when no candidate forum can be probed, or the search itself raises, the
\* list handed to get_comments_parallel is the fallback, and it is never empty.
C32_FallbackOnTotalFailure ==
    gpc # "l193" =>
        /\ (accessible = {} \/ search_raised) => subreddits = FallbackSubreddits
        /\ subreddits # <<>>

\* ---------------------------------------------------------------------
\* Claims about retry_on_failure
\* ---------------------------------------------------------------------

RECURSIVE Power(_, _)
Power(b, n) == IF n = 0 THEN 1 ELSE b * Power(b, n - 1)

\* C33: with max_retries >= 0 the wrapper calls func at most max_retries + 1
\* times, makes no call after one that returned and returns that call's result,
\* sleeps only after a failed call and before the next call (delay before the
\* second call, multiplied by backoff before each further one, never after the
\* last failure), and after max_retries + 1 failures in a row raises the last
\* failure.
C33_RetryWrapper ==
    max_retries >= 0 =>
        /\ CallsMade <= max_retries + 1
        /\ \A k \in 1..Len(trace) :
              /\ trace[k].event = (IF k % 2 = 1 THEN "call" ELSE "sleep")
              /\ (trace[k].event = "call" /\ k < Len(trace)) => trace[k].outcome = "raises"
              /\ trace[k].event = "sleep" =>
                    trace[k].delay = delay * Power(backoff, (k \div 2) - 1)
        /\ wpc = "done" =>
              LET final == trace[Len(trace)] IN
              /\ trace # <<>>
              /\ final.event = "call"
              /\ wrapper_result.of_call = CallsMade
              /\ wrapper_result.kind = (IF final.outcome = "returns" THEN "returned"
                                        ELSE "raised")
              /\ final.outcome = "raises" => CallsMade = max_retries + 1

\* Three calls failed: the wrapper slept 3 and then 6 seconds between them and
\* raised the third failure.
C33_Witness ==
    /\ wpc = "done"
    /\ max_retries = 2 /\ delay = 3 /\ backoff = 2
    /\ wrapper_result = [kind |-> "raised", of_call |-> 3]
    /\ Len(trace) = 5
    /\ trace[2].delay = 3 /\ trace[4].delay = 6
    /\ trace[5].outcome = "raises"

\* C34: every database write the system performs (saveSearchResult,
\* deleteBatch, cleanup, testConnection) targets the search_results
\* collection only: no operation inserts into or deletes from another
\* collection, and no other collection comes to exist.
C34_OnlySearchResults ==
    /\ written_to \subseteq {"search_results"}
    /\ \A name \in CollectionNames \ {"search_results"} : store[name] = Absent

\* C40: get_comments(video_id, max_comments) terminates after finitely many
\* page requests whatever pages the platform sends, pages with a next-page
\* token and no items included, and it never returns more than max_comments
\* comments when each page respects the requested page size.
C40_GetCommentsTerminates ==
    /\ <>(ypc = "done")
    /\ [](ypc = "done" => Len(ycomments) <= Max(0, max_comments))

====
